---- MODULE Spec2Model ----
(***************************************************************************)
(* Model of the serial stack of open-motion-light-manager:                 *)
(*   SerialConnection  (reader/writer handles of one port)                 *)
(*   SerialTransport   (write, readChunk, readExact, leftover buffer)      *)
(*   SerialService     (runOperation: the promise-chain operation lock)    *)
(*   FlasherService    (flash: the firmware flashing sequence)             *)
(* Spec: the callers of runOperation, SpecLive: the same when every body   *)
(* terminates; SpecTransport: one direct client of                         *)
(* the transport; SpecFlash: one call of flash; SpecDeadline: one readExact *)
(* against the clock; SpecConnection: the handles of a SerialConnection;    *)
(* SpecProtocol: one method of Stm32BootloaderProtocol, ProtobufProtocol   *)
(* or bootloaderCommands over a transport that records its calls.          *)
(* An action is the code that runs between two suspensions on the platform *)
(* (a physical read or write, a timer, an abort event).  The platform (the *)
(* port's streams, the timers, the abort signals, the device on the wire)  *)
(* is the environment.                                                     *)
(***************************************************************************)
EXTENDS Integers, Sequences, FiniteSets, TLC

\* ---------------------------------------------------------------- bounds
NumOps == 3          \* runOperation calls made on one SerialService
MaxCalls == 1        \* transport calls made by one operation body
MaxDirectCalls == 3  \* transport calls made by the direct client
MaxLen == 2          \* largest length passed to readExact
MaxChunk == 2        \* largest chunk one physical read delivers
MaxBytes == 2        \* bytes the device sends while operations run
MaxDirectBytes == 4  \* bytes the device sends to the direct client
MaxTime == 4         \* the last instant of the clock of a timed readExact
MaxTimeout == 2      \* largest timeout passed to a timed readExact
MaxRxLen == 3        \* largest length passed to a timed readExact
MaxHandles == 3      \* readers and writers the streams of the port hand out
MaxGets == 2         \* getReader (getWriter) calls between two releases
MaxSizeByte == 4     \* largest size byte the device answers GET_ID with
MaxPages == 2        \* most page indices passed to erasePages
MaxChecksumLen == 3  \* longest sequence passed to appendChecksum

Ops == 1..NumOps
Direct == 0                    \* a client that calls the transport directly
Callers == {Direct} \cup Ops
Locks == 0..NumOps             \* 0 is the initial Promise.resolve()

VARIABLES
  portOpen,       \* port.readable and port.writable are non-null
  conn,           \* SerialConnection: [reader, writer], 0 = null, 1 = held
  leftover,       \* SerialTransport.leftover (<<>> = null)
  operationLock,  \* SerialService.operationLock: the lock of the last caller
  lockResolved,   \* which lock promises are resolved
  prevLock,       \* currentLock captured by each runOperation call
  pc,             \* position of each runOperation call
  hasSignal,      \* the caller passed an AbortSignal
  aborted,        \* signal.aborted
  err,            \* the error the caller's last failed call threw
  call,           \* the transport call of each caller's body
  sent,           \* number of bytes the device has sent
  out,            \* history: bytes readExact returned to the direct client
  started,        \* history: the operation body (fn) was invoked
  earlyCancel,    \* history: the signal fired before the caller's turn
  flash,          \* FlasherService.flash: the state of one call
  rx,             \* one readExact call with its clock
  sc,             \* a SerialConnection with the streams of its port
  proto           \* one method of a protocol class over its transport

schedVars == <<operationLock, lockResolved, prevLock, pc, started, earlyCancel>>
sigVars == <<hasSignal, aborted>>
vars == <<portOpen, conn, leftover, operationLock, lockResolved, prevLock, pc,
          hasSignal, aborted, err, call, sent, out, started, earlyCancel,
          flash, rx, sc, proto>>

\* a byte on the wire is <<its position in the stream, the caller whose
\* physical read received it>>
Chunk(c, from, k) == [j \in 1..k |-> <<from + j, c>>]

\* made: transport calls the body has made; buf: the buffer of its last
\* readExact; phys: the state of its physical read or write; timer: the
\* timeout of its readChunk is armed; listener: onAbort of its readChunk is
\* registered on its signal
NoCall == [kind |-> "none", len |-> 0, buf |-> <<>>, phys |-> "none",
           timed |-> FALSE, made |-> 0, timer |-> FALSE, listener |-> FALSE]

\* ------------------------------------------------------ SerialConnection
releaseReader_keep(c) == c

releaseReader(c) == [c EXCEPT !.reader = 0]

releaseWriter(c) == [c EXCEPT !.writer = 0]

releaseLocks(c) == releaseWriter(releaseReader(c))

\* reader.releaseLock() or reader.cancel() by somebody else while a read of
\* caller d is pending on the shared reader: that read is taken from d
Orphan(cl, me) ==
  [d \in Callers |->
     IF d # me /\ cl[d].kind = "readExact" /\ cl[d].phys = "pending"
       THEN [cl[d] EXCEPT !.phys = "orphaned"] ELSE cl[d]]

\* getReader, getWriter: the ConnectionError of a port without streams
NotReadableError == "ConnectionError: Port not readable"

NotWritableError == "ConnectionError: Port not writable"

\* ------------------------------------------------------- SerialTransport
\* readChunk, lines 58-72: the listener is added to a signal that is given,
\* the timer is set when a timeout is given
Install(rec, sig) == [rec EXCEPT !.timer = rec.timed, !.listener = sig]

\* cleanup, lines 44-50, in the finally of readChunk (line 87)
cleanup_keepTimer(rec) == [rec EXCEPT !.listener = FALSE]

cleanup(rec) == [rec EXCEPT !.timer = FALSE, !.listener = FALSE]

\* the record of a call that has ended: what its readChunk left installed
\* stays installed
Ended(rec) == [NoCall EXCEPT !.timer = rec.timer, !.listener = rec.listener]

StreamClosedError_timeout == "TimeoutError"

\* readExact, lines 106-108: the ConnectionError for a null chunk
StreamClosedError ==
  "ConnectionError: Stream closed before receiving expected length"

Min_first(a, b) == a

Min(a, b) == IF a < b THEN a ELSE b

\* readExact, lines 110-112 and 118: copy min(chunk.length, needed) bytes
Copied(chunk, buf, len) ==
  buf \o SubSeq(chunk, 1, Min(Len(chunk), len - Len(buf)))

Excess_dropped(chunk, buf, len, old) == old

\* readExact, lines 114-116: the rest of the chunk becomes the leftover
Excess(chunk, buf, len, old) ==
  IF Len(chunk) > len - Len(buf)
    THEN SubSeq(chunk, len - Len(buf) + 1, Len(chunk))
    ELSE old

HasLeftover_never(lo) == FALSE

\* readChunk, line 33: this.leftover && this.leftover.length > 0
HasLeftover(lo) == lo # <<>>

\* readChunk, lines 78-85: the error a rejected physical read is turned into
ReadChunkError(cancelled, timed, ab, e) ==
  IF cancelled
    THEN IF timed /\ ~ab THEN "TimeoutError" ELSE "AbortError"
    ELSE e

\* --------------------------------------------------------- SerialService
\* runOperation, lines 66-69: the finally resolves the caller's lock whether
\* the await, the check or fn returned or threw (ok: fn returned)
releaseLock_onSuccess(locks, i, ok) ==
  IF ok THEN [locks EXCEPT ![i] = TRUE] ELSE locks

releaseLock(locks, i, ok) == [locks EXCEPT ![i] = TRUE]

\* runOperation, line 49: the race settles when the previous lock resolves
\* or the abort listener rejects
RaceSettled(lockRes, sig, ab) == lockRes \/ (sig /\ ab)

MayRunFn_noRecheck(raceWon, sig, ab) == raceWon

\* runOperation, lines 49-61: fn runs only if the await did not throw and
\* the signal is not aborted
MayRunFn(raceWon, sig, ab) == raceWon /\ ~(sig /\ ab)

\* ------------------------------------------- SerialConnection, its handles
\* one side (reader or writer) of a SerialConnection.  handle: this.reader
\* (this.writer), 0 = null; locked: the handle that holds the lock of the
\* port's stream (0: unlocked); pending: a read (write) on the handle is in
\* flight; acq, calls: history, the acquisitions from the stream and the
\* getReader (getWriter) calls since the handle was last null; ret: history,
\* the handle the last of these calls returned; same: history, no such call
\* has failed or returned another handle than the one before
NoSide ==
  [handle |-> 0, locked |-> 0, pending |-> FALSE, acq |-> 0, calls |-> 0,
   ret |-> 0, same |-> TRUE]

\* open: port.readable and port.writable are non-null; made: the handles
\* the streams have handed out so far; noops: history, the open and close
\* calls that returned without touching the port; reopened, reclosed:
\* history, port.open() was called on an open port, port.close() on a
\* closed one
NoSc ==
  [open |-> FALSE, made |-> 0, r |-> NoSide, w |-> NoSide, noops |-> {},
   reopened |-> FALSE, reclosed |-> FALSE]

MustOpen_always(opened) == TRUE

\* open, line 18: if (this.opened) return
MustOpen(opened) == ~opened

\* close, line 32: if (this.opened)
MustClose(opened) == opened

NeedsAcquire_always(handle) == TRUE

\* if (!this.reader), if (!this.writer): lines 42, 53
NeedsAcquire(handle) == handle = 0

\* getReader (getWriter), lines 37-46 (48-57), on side x, the stream handing
\* out the handle id; getReader() of a locked stream throws
GetHandle(x, open, id) ==
  IF ~open
    THEN [x EXCEPT !.handle = 0, !.acq = 0, !.calls = 0, !.ret = 0]
    ELSE IF NeedsAcquire(x.handle)
      THEN IF x.locked # 0
             THEN [x EXCEPT !.calls = @ + 1, !.same = @ /\ x.ret = 0]
             ELSE [x EXCEPT !.handle = id, !.locked = id, !.acq = @ + 1,
                            !.calls = @ + 1, !.ret = id,
                            !.same = @ /\ x.ret = 0]
      ELSE [x EXCEPT !.calls = @ + 1, !.ret = x.handle,
                     !.same = @ /\ x.ret \in {0, x.handle}]

\* releaseReader (releaseWriter), lines 59-68 (70-79), on side x; throws:
\* releaseLock() threw, which is ignored
ReleaseHandle(x, throws) ==
  IF x.handle # 0
    THEN [x EXCEPT !.handle = 0, !.acq = 0, !.calls = 0, !.ret = 0,
                   !.locked = IF @ = x.handle /\ ~throws THEN 0 ELSE @,
                   !.pending = IF throws THEN @ ELSE FALSE]
    ELSE x

\* the streams of the port are gone (closed or lost)
StreamGone(x) == [x EXCEPT !.locked = 0, !.pending = FALSE]

\* ------------------------------------------------- readExact and the clock
\* options.timeout ? ... : undefined (readExact line 99), if (timeout)
\* (readChunk line 66): a timeout of 0 is no timeout
HasTimeout(timeout) == timeout # 0

\* readExact line 99: options.timeout - (Date.now() - startTime)
RemainingTimeout(timeout, startTime, now) == timeout - (now - startTime)

\* pc: where the call is; now: Date.now(); length, timeout: the arguments;
\* startTime, offset: the locals of readExact; timerAt: the instant the
\* timer of the current readChunk is due (-1: no timer); chunks: history,
\* the chunks that have arrived; expired: history, the budget was found
\* used up before length bytes were collected
NoRx ==
  [pc |-> "idle", now |-> 0, length |-> 0, timeout |-> 0, startTime |-> 0,
   offset |-> 0, timerAt |-> -1, chunks |-> 0, expired |-> FALSE,
   err |-> "none"]

\* readExact at the top of its loop (lines 98-105) at instant r.now, with
\* offset < length: the deadline check, then readChunk up to reader.read()
RxLoop(r) ==
  IF HasTimeout(r.timeout)
    THEN LET remainingTimeout ==
               RemainingTimeout(r.timeout, r.startTime, r.now)
         IN IF remainingTimeout <= 0
              THEN [r EXCEPT !.pc = "failed", !.err = "TimeoutError",
                             !.timerAt = -1, !.expired = TRUE]
              ELSE [r EXCEPT !.pc = "reading",
                             !.timerAt = r.now + remainingTimeout]
    ELSE [r EXCEPT !.pc = "reading", !.timerAt = -1]

\* -------------------------------------------------------- FlasherService
PRODUCT_ID == 1047
FLASH_PAGE_SIZE == 1024
PROGRAM_FLASH_START_ADDRESS == 134217728
writeChunkSize == 256
readChunkSize == 256

FlasherState ==
  {"idle", "entering-bootloader", "initializing", "unprotecting", "erasing",
   "writing", "verifying", "resetting", "complete", "error"}

\* productId !== CHIP_PARAMETERS.PRODUCT_ID is false (line 73)
ProductIdOk_any(pid) == TRUE

ProductIdOk(pid) == pid = PRODUCT_ID

\* the firmware images flash is called with, by their byteLength
ImageSizes == {0, 2, 4, 256, 260, 512, 1024}

\* product IDs the device answers getProductId with
ProductIds == {PRODUCT_ID, 1040}

\* the byte at offset p - 1 of the firmware image
ImageByte(p) == (p * 37 + 11) % 256

\* new Uint8Array(firmwareData, offset, length)
ImageChunk(offset, length) == [p \in 1..length |-> ImageByte(offset + p)]

\* an error value: its name (or message) and the address it names
Err(n) == [name |-> n, at |-> 0]

NoErr == Err("none")

VerifyErr(addr) == [name |-> "Verification failed at address", at |-> addr]

ProductIdErr(pid) == [name |-> "Incorrect product ID", at |-> pid]

\* error instanceof DOMException && error.name === "AbortError"
IsAbortError(e) == e.name = "AbortError"

\* Math.ceil(n / d) for n >= 0, d > 0
Ceil(n, d) == (n + d - 1) \div d

Round_down(num, den) == num \div den

\* Math.round(num / den) for num >= 0, den > 0
Round(num, den) == (2 * num + den) \div (2 * den)

compareUint8Arrays_lengthOnly(a, b) == Len(a) = Len(b)

\* FlasherService.compareUint8Arrays: the lengths, then every index in turn
compareUint8Arrays(a, b) ==
  IF Len(a) # Len(b) THEN FALSE
  ELSE \A i \in 1..Len(a) : a[i] = b[i]

ValidLength_any(n) == TRUE

\* Stm32BootloaderProtocol.writeMemory / readMemory: the length check
ValidLength(n) == ~(n > 256 \/ n = 0 \/ n % 4 # 0)

\* pc: the await flash is suspended at; state, progress: the last record
\* given to onProgress; reported: history of the states given to onProgress;
\* written, verified: bytesWritten, bytesVerified; resets: resetMcu calls
\* made; result, thrown: how the promise of flash settled; failure: the
\* error caught by flash; mismatch: history, the address of a chunk whose
\* read-back differed from the image (-1: none); phases: history, the
\* states given to onProgress in order, a repeated state counted once; pct:
\* history, the last progress given with each state (-1: never); issued:
\* history, the methods of the bootloader protocol flash has called; writes,
\* reads: history, the writeMemory and readMemory calls made; lens: history,
\* the lengths passed to them; writeAfterRead: history, a writeMemory call
\* was made after a readMemory call; badId: history, getProductId returned
\* an ID other than PRODUCT_ID; log: history, in order: the setSignals calls
\* of the entry sequence that completed, the start of the body given to
\* runBootloaderOperation ("begin"), the methods of the bootloader protocol
\* called (a repeated method counted once), the end of that body ("end"),
\* the call of resetMcu; wchunks, rchunks: history, the address and the
\* length of every writeMemory and readMemory call in order; erased: the
\* number of pages of the erasePages call that succeeded (pages 0 ..
\* erased - 1)
NoFlash ==
  [pc |-> "idle", total |-> 0, aborted |-> FALSE, state |-> "idle",
   progress |-> 0, reported |-> {}, written |-> 0, verified |-> 0,
   resets |-> 0, result |-> "pending", failure |-> NoErr, thrown |-> NoErr,
   mismatch |-> -1, phases |-> <<>>, pct |-> [st \in FlasherState |-> -1],
   issued |-> {}, writes |-> 0, reads |-> 0, lens |-> {},
   writeAfterRead |-> FALSE, badId |-> FALSE, log |-> <<>>,
   wchunks |-> <<>>, rchunks |-> <<>>, erased |-> 0]

\* onProgress({state, progress, message})
Report(f, st, pr) ==
  [f EXCEPT !.state = st, !.progress = pr, !.reported = @ \cup {st},
            !.phases = IF @ # <<>> /\ @[Len(@)] = st THEN @ ELSE Append(@, st),
            !.pct[st] = pr]

Log(f, e) == [f EXCEPT !.log = Append(@, e)]

EntrySignals_allLow(p) == "DTR=0,RTS=0"

\* the signals of the setSignals call flash is suspended at: lines 60-64
EntrySignals(p) ==
  IF p = "setSignals2" THEN "DTR=0,RTS=1" ELSE "DTR=0,RTS=0"

\* the body given to runBootloaderOperation is running
InOperation(f) ==
  /\ \E i \in 1..Len(f.log) : f.log[i] = "begin"
  /\ \A i \in 1..Len(f.log) : f.log[i] # "end"

\* flash calls method cmd of the bootloader protocol
Issue(f, cmd) ==
  [f EXCEPT !.issued = @ \cup {cmd},
            !.log = IF @ # <<>> /\ @[Len(@)] = cmd THEN @ ELSE Append(@, cmd)]

ChunkAddress_fixed(bytes) == PROGRAM_FLASH_START_ADDRESS

\* currentAddress (currentReadAddress) once bytes bytes are written
\* (verified): lines 93 and 102, 114 and 128
ChunkAddress(bytes) == PROGRAM_FLASH_START_ADDRESS + bytes

\* flash calls stm32.writeMemory with a chunk of n bytes (line 99)
CallWriteMemory(f, n) ==
  [Issue(f, "writeMemory") EXCEPT
     !.writes = @ + 1, !.lens = @ \cup {n},
     !.writeAfterRead = @ \/ f.reads > 0,
     !.wchunks = Append(@, [address |-> ChunkAddress(f.written),
                            length |-> n])]

\* flash calls stm32.readMemory for n bytes (line 120)
CallReadMemory(f, n) ==
  [Issue(f, "readMemory") EXCEPT
     !.reads = @ + 1, !.lens = @ \cup {n},
     !.rchunks = Append(@, [address |-> ChunkAddress(f.verified),
                            length |-> n])]

Catch_errorThenIdle(f, e) ==
  IF IsAbortError(e)
    THEN [Report(f, "idle", 0) EXCEPT !.pc = "done", !.failure = e,
                                      !.result = "resolved"]
    ELSE [Report(Report(f, "error", 0), "idle", 0)
            EXCEPT !.pc = "resetOnError", !.failure = e, !.resets = @ + 1]

\* the catch block of flash, lines 143-156, up to its await of resetMcu;
\* an error thrown in the body given to runBootloaderOperation ends that
\* operation first
Catch(f, e) ==
  LET g == IF InOperation(f) THEN Log(f, "end") ELSE f
  IN IF IsAbortError(e)
       THEN [Report(g, "idle", 0) EXCEPT !.pc = "done", !.failure = e,
                                         !.result = "resolved"]
       ELSE [Log(Report(g, "error", 0), "resetMcu")
               EXCEPT !.pc = "resetOnError", !.failure = e, !.resets = @ + 1]

\* the verify loop of flash from its top, lines 116-120, then lines 135-139
VerifyLoop(f) ==
  IF f.verified < f.total
    THEN IF f.aborted THEN Catch(f, Err("AbortError"))
         ELSE LET length == Min(readChunkSize, f.total - f.verified)
                  g == CallReadMemory(f, length)
              IN IF ~ValidLength(length)
                   THEN Catch(g, Err("ProtocolError"))
                   ELSE [g EXCEPT !.pc = "readMemory"]
    ELSE [Log(Report(Log(f, "end"), "resetting", 100), "resetMcu")
            EXCEPT !.pc = "reset", !.resets = @ + 1]

\* the write loop of flash from its top, lines 95-99, then lines 110-114
WriteLoop(f) ==
  IF f.written < f.total
    THEN IF f.aborted THEN Catch(f, Err("AbortError"))
         ELSE LET length == Min(writeChunkSize, f.total - f.written)
                  g == CallWriteMemory(f, length)
              IN IF ~ValidLength(length)
                   THEN Catch(g, Err("ProtocolError"))
                   ELSE [g EXCEPT !.pc = "writeMemory"]
    ELSE VerifyLoop(Report(f, "verifying", 50))

\* runBootloaderOperation is entered (SerialService.runOperation lines 36-64
\* with no other caller), then flash lines 68-70
EnterOperation(f) ==
  IF f.aborted THEN Catch(f, Err("AbortError"))
  ELSE [Issue(Report(Log(f, "begin"), "initializing", 0), "init")
          EXCEPT !.pc = "init"]

\* how a bootloader command can end: the errors of the transport and of the
\* protocol; once the signal has fired, what the cancelled read turns into
CommandOutcomes(f) ==
  IF f.aborted THEN {"AbortError", "ConnectionError"}
  ELSE {"ok", "ProtocolError", "TimeoutError", "ConnectionError", "StreamError"}

\* ------------------------------------------------- the bootloader protocol
ACK == 121
NACK == 31
PROGRAM_FLASH_SIZE == 65536
NUM_SECTORS == 65536 \div 4096

\* bit i of the non-negative integer x
Bit(x, i) == (x \div 2^i) % 2

\* a ^ b on two bytes
Xor(a, b) ==
  LET d(i) == IF Bit(a, i) # Bit(b, i) THEN 2^i ELSE 0
  IN d(0) + d(1) + d(2) + d(3) + d(4) + d(5) + d(6) + d(7)

\* the value an element of a Uint8Array takes when x is stored into it
Uint8(x) == x % 256

\* constants.ts, createCommand: [command, command ^ 0xff]
createCommand(command) == <<command, Xor(command, 255)>>

GET_ID == createCommand(2)

READ_MEMORY == createCommand(17)

WRITE_MEMORY == createCommand(49)

ERASE_EXTENDED == createCommand(68)

WRITE_PROTECT == createCommand(99)

\* new ProtocolError(message); at: the byte the message names
ProtocolError(message, at) ==
  [name |-> "ProtocolError", message |-> message, at |-> at]

NoProtocolError == [name |-> "none", message |-> "", at |-> 0]

\* what a failed transport.readExact or transport.write rejects with
ReadFailure ==
  [name |-> "TimeoutError", message |-> "Serial operation timed out",
   at |-> 0]

WriteFailure ==
  [name |-> "ConnectionError", message |-> "Port not writable", at |-> 0]

calculateChecksum_first(data) == IF Len(data) = 0 THEN 0 ELSE data[1]

\* calculateChecksum: checksum ^= data[i] for every i.  Bit k of the result
\* has been flipped once for every byte that has bit k set
calculateChecksum(data) ==
  LET flips(k) == Cardinality({i \in 1..Len(data) : Bit(data[i], k) = 1})
      d(k) == IF flips(k) % 2 = 1 THEN 2^k ELSE 0
  IN d(0) + d(1) + d(2) + d(3) + d(4) + d(5) + d(6) + d(7)

\* Stm32BootloaderProtocol.appendChecksum (bootloaderCommands.ts has the
\* same function, lines 7-16)
appendChecksum(data) == Append(data, Uint8(calculateChecksum(data)))

AckError_nackAsOther(byte) ==
  IF byte # ACK THEN ProtocolError("Expected ACK (0x79), received", byte)
  ELSE NoProtocolError

\* expectAck, lines 133-138: the error the byte read makes it throw
AckError(byte) ==
  IF byte = NACK THEN ProtocolError("Received NACK from bootloader", 0)
  ELSE IF byte # ACK
    THEN ProtocolError("Expected ACK (0x79), received", byte)
    ELSE NoProtocolError

\* (id << 8) | byte on 32-bit signed integers: bits 0..22 of id move up,
\* bit 23 becomes the sign, bits 24..31 are lost
ShiftIn(id, byte) ==
  LET low == id % 2^23
      sign == (id \div 2^23) % 2
  IN (low * 256 + byte) - sign * 2^30 - sign * 2^30

\* the loop of getProductId from index i on, id being the value so far
RECURSIVE IdFrom(_, _, _)
IdFrom(idBytes, i, id) ==
  IF i > Len(idBytes) THEN id
  ELSE IdFrom(idBytes, i + 1, ShiftIn(id, idBytes[i]))

pageData_count(pages) ==
  [k \in 1..(2 + Len(pages) * 2) |->
     IF k = 1 THEN Uint8(Len(pages) \div 256)
     ELSE IF k = 2 THEN Len(pages) % 256
     ELSE IF (k - 3) % 2 = 0 THEN Uint8(pages[(k - 3) \div 2 + 1] \div 256)
     ELSE pages[(k - 3) \div 2 + 1] % 256]

\* erasePages, lines 190-201
pageData(pages) ==
  LET numPages == Len(pages) - 1
  IN [k \in 1..(2 + Len(pages) * 2) |->
        IF k = 1 THEN Uint8(numPages \div 256)
        ELSE IF k = 2 THEN numPages % 256
        ELSE IF (k - 3) % 2 = 0
          THEN Uint8(pages[(k - 3) \div 2 + 1] \div 256)
          ELSE pages[(k - 3) \div 2 + 1] % 256]

\* eraseAll, lines 210-211
eraseAllPages ==
  LET numPages == Ceil(PROGRAM_FLASH_SIZE, FLASH_PAGE_SIZE)
  IN [i \in 1..numPages |-> i - 1]

\* writeMemory, lines 223-228
addrBytes(address) ==
  <<(address \div 2^24) % 256, (address \div 2^16) % 256,
    (address \div 2^8) % 256, address % 256>>

\* writeMemory, lines 232-234
writePayload(data) == <<Uint8(Len(data) - 1)>> \o data

sectorsData_count ==
  <<NUM_SECTORS>> \o [i \in 1..NUM_SECTORS |-> i - 1]

\* bootloaderCommands.ts writeProtectAll, lines 196-199
sectorsData ==
  <<NUM_SECTORS - 1>> \o [i \in 1..NUM_SECTORS |-> i - 1]

\* serialCommunication readSerial with loop = false: the SerialResult for
\* the chunk reader.read() resolved with (<<>>: done, or an empty chunk)
readSerial(chunk) ==
  IF Len(chunk) = 0
    THEN [data |-> <<>>, error |-> "No data received within timeout"]
    ELSE [data |-> chunk, error |-> ""]

\* bootloaderCommands.ts writeAndExpectAck, lines 30-50: the string it
\* returns for the SerialResult res ("": null)
writeAndExpectAck(res) ==
  IF res.error # "" THEN res.error
  ELSE IF Len(res.data) = 0 THEN "Got no response when writing flash"
  ELSE IF Len(res.data) # 1 THEN "Got incorrect number of bytes"
  ELSE IF res.data[1] # ACK THEN "Command not ACKed"
  ELSE ""

RequestTooLong_never(n) == FALSE

\* sendRequest, line 11
RequestTooLong(n) == n > 127

\* sendRequest, lines 15-17
dataWithLength(requestData) == <<Uint8(Len(requestData))>> \o requestData

ResponseTooLong_never(n) == FALSE

\* sendRequest, line 25
ResponseTooLong(n) == n > 127

\* SerialResponse.fromBinary: the message, named by the bytes it is decoded
\* from
fromBinary(bytes) == [binary |-> bytes]

\* the bytes SerialRequest.toBinary gives for the requests sendRequest is
\* called with, by their number
RequestLens == {0, 1, 2, 127, 128}

RequestData(n) == [i \in 1..n |-> (i * 5) % 256]

\* the length bytes the device answers sendRequest with
ResponseLens == {0, 1, 2, 127, 128, 129, 255}

\* the bytes of the sequences appendChecksum is called with
ChecksumBytes == {1, 2, 3, 17, 34, 255}

\* the bytes the device answers a call of expectAck with
AckBytes == 0..255

\* the bytes the device answers the expectAck of the other methods with
AckSamples == {ACK, NACK, 0}

\* the ID bytes the device answers getProductId with
IdBytes == {4, 19, 128}

\* the page indices erasePages is called with
SamplePages == {0, 1, 511}

\* the lengths of the data writeMemory and readMemory are called with
DataLens == {0, 2, 4, 8, 256, 257, 260}

\* the chunks reader.read() resolves with under writeProtectAll
LegacyChunks == {<<>>, <<ACK>>, <<NACK>>, <<ACK, ACK>>}

\* all sequences over S of length at most n
SeqsUpTo(S, n) == UNION {[1..k -> S] : k \in 0..n}

\* op: the method called; pc: what it is suspended at; step: the number of
\* transport calls it has made; arg, address: its arguments (the pages, the
\* data, the serialized request); writes: history, the frames given to
\* transport.write; reads: history, the length and the timeout of each
\* read; idBytes: the ID bytes getProductId read; returned, id, response,
\* ret, bytes: what the method returned; error: what it threw
NoProto ==
  [op |-> "none", pc |-> "idle", step |-> 0, arg |-> <<>>, address |-> 0,
   writes |-> <<>>, reads |-> <<>>, idBytes |-> <<>>, returned |-> FALSE,
   id |-> 0, response |-> fromBinary(<<>>), ret |-> <<>>, bytes |-> <<>>,
   error |-> NoProtocolError]

\* await this.transport.write(frame)
TransportWrite(p, frame) ==
  [p EXCEPT !.pc = "write", !.step = @ + 1, !.writes = Append(@, frame)]

\* await this.transport.readExact(n, { timeout, signal })
TransportRead(p, n, timeout) ==
  [p EXCEPT !.pc = "read", !.step = @ + 1,
            !.reads = Append(@, [n |-> n, timeout |-> timeout])]

ProtoThrow(p, e) == [p EXCEPT !.pc = "done", !.error = e]

ProtoReturn(p) == [p EXCEPT !.pc = "done", !.returned = TRUE]

\* expectAck, line 132: the read
ExpectAck(p, timeout) == TransportRead(p, 1, timeout)

AfterAck_ignore(p, got, next) == next

\* expectAck, lines 133-138: got is what the read resolved with, next the
\* rest of the caller
AfterAck(p, got, next) ==
  IF AckError(got[1]) # NoProtocolError THEN ProtoThrow(p, AckError(got[1]))
  ELSE next

\* the methods below: p.step is the transport call that has just resolved
\* (0: the method was called), got the bytes a read resolved with

\* Stm32BootloaderProtocol.expectAck
expectAck(p, got) ==
  CASE p.step = 0 -> ExpectAck(p, 1000)
    [] p.step = 1 -> AfterAck(p, got, ProtoReturn(p))

\* Stm32BootloaderProtocol.getProductId
getProductId(p, got) ==
  CASE p.step = 0 -> TransportWrite(p, GET_ID)
    [] p.step = 1 -> ExpectAck(p, 1000)
    [] p.step = 2 -> AfterAck(p, got, TransportRead(p, 1, 1000))
    [] p.step = 3 -> TransportRead(p, got[1] + 1, 1000)
    [] p.step = 4 -> ExpectAck([p EXCEPT !.idBytes = got], 1000)
    [] p.step = 5 ->
         AfterAck(p, got,
                  [ProtoReturn(p) EXCEPT !.id = IdFrom(p.idBytes, 1, 0)])

\* Stm32BootloaderProtocol.erasePages
erasePages(p, got) ==
  CASE p.step = 0 ->
         IF Len(p.arg) = 0 THEN ProtoReturn(p)
         ELSE TransportWrite(p, ERASE_EXTENDED)
    [] p.step = 1 -> ExpectAck(p, 1000)
    [] p.step = 2 ->
         AfterAck(p, got, TransportWrite(p, appendChecksum(pageData(p.arg))))
    [] p.step = 3 -> ExpectAck(p, 10000)
    [] p.step = 4 -> AfterAck(p, got, ProtoReturn(p))

\* Stm32BootloaderProtocol.eraseAll
eraseAll(p, got) ==
  IF p.step = 0 THEN erasePages([p EXCEPT !.arg = eraseAllPages], got)
  ELSE erasePages(p, got)

\* Stm32BootloaderProtocol.writeMemory
writeMemory(p, got) ==
  CASE p.step = 0 ->
         IF ~ValidLength(Len(p.arg))
           THEN ProtoThrow(p, ProtocolError("Invalid data length for writeMemory",
                                           Len(p.arg)))
           ELSE TransportWrite(p, WRITE_MEMORY)
    [] p.step = 1 -> ExpectAck(p, 1000)
    [] p.step = 2 ->
         AfterAck(p, got,
                  TransportWrite(p, appendChecksum(addrBytes(p.address))))
    [] p.step = 3 -> ExpectAck(p, 1000)
    [] p.step = 4 ->
         AfterAck(p, got,
                  TransportWrite(p, appendChecksum(writePayload(p.arg))))
    [] p.step = 5 -> ExpectAck(p, 1000)
    [] p.step = 6 -> AfterAck(p, got, ProtoReturn(p))

\* readMemory, line 256
lenPayload(length) == <<Uint8(length - 1), Xor(Uint8(length - 1), 255)>>

\* Stm32BootloaderProtocol.readMemory; p.arg[1] is the length
readMemory(p, got) ==
  CASE p.step = 0 ->
         IF ~ValidLength(p.arg[1])
           THEN ProtoThrow(p, ProtocolError("Invalid length for readMemory",
                                           p.arg[1]))
           ELSE TransportWrite(p, READ_MEMORY)
    [] p.step = 1 -> ExpectAck(p, 1000)
    [] p.step = 2 ->
         AfterAck(p, got,
                  TransportWrite(p, appendChecksum(addrBytes(p.address))))
    [] p.step = 3 -> ExpectAck(p, 1000)
    [] p.step = 4 -> AfterAck(p, got, TransportWrite(p, lenPayload(p.arg[1])))
    [] p.step = 5 -> ExpectAck(p, 1000)
    [] p.step = 6 -> AfterAck(p, got, TransportRead(p, p.arg[1], 500))
    [] p.step = 7 -> [ProtoReturn(p) EXCEPT !.bytes = got]

\* bootloaderCommands.ts writeProtectAll; res is the SerialResult of
\* writeAndReadSerial
writeProtectAll(p, res) ==
  CASE p.step = 0 -> TransportWrite(p, WRITE_PROTECT)
    [] p.step = 1 -> TransportRead(p, -1, 100)
    [] p.step = 2 ->
         IF writeAndExpectAck(res) # ""
           THEN [ProtoReturn(p) EXCEPT
                   !.ret = <<"Error while issuing write protect",
                             writeAndExpectAck(res)>>]
           ELSE TransportWrite(p, appendChecksum(sectorsData))
    [] p.step = 3 -> TransportRead(p, -1, 100)
    [] p.step = 4 ->
         IF writeAndExpectAck(res) # ""
           THEN [ProtoReturn(p) EXCEPT
                   !.ret = <<"Error setting number of sectors for write protect",
                             writeAndExpectAck(res)>>]
           ELSE ProtoReturn(p)

\* ProtobufProtocol.sendRequest; p.arg is SerialRequest.toBinary(request)
sendRequest(p, got) ==
  CASE p.step = 0 ->
         IF RequestTooLong(Len(p.arg))
           THEN ProtoThrow(p, ProtocolError("Request too long (max 127 bytes)",
                                           0))
           ELSE TransportWrite(p, dataWithLength(p.arg))
    [] p.step = 1 -> TransportRead(p, 1, 1000)
    [] p.step = 2 ->
         IF ResponseTooLong(got[1])
           THEN ProtoThrow(p, ProtocolError("Response too long (max 127 bytes)",
                                           0))
           ELSE IF got[1] = 0
             THEN [ProtoReturn(p) EXCEPT !.response = fromBinary(<<>>)]
             ELSE TransportRead(p, got[1], 1000)
    [] p.step = 3 -> [ProtoReturn(p) EXCEPT !.response = fromBinary(got)]

\* the method p is in, resumed with what its transport call resolved with
Resume(p, got) ==
  CASE p.op = "appendChecksum" ->
         [ProtoReturn(p) EXCEPT !.bytes = appendChecksum(p.arg)]
    [] p.op = "expectAck" -> expectAck(p, got)
    [] p.op = "getProductId" -> getProductId(p, got)
    [] p.op = "erasePages" -> erasePages(p, got)
    [] p.op = "eraseAll" -> eraseAll(p, got)
    [] p.op = "writeMemory" -> writeMemory(p, got)
    [] p.op = "readMemory" -> readMemory(p, got)
    [] p.op = "writeProtectAll" -> writeProtectAll(p, readSerial(got))
    [] p.op = "sendRequest" -> sendRequest(p, got)

\* what the device may answer the pending read of p with
ReadData(p) ==
  LET n == p.reads[Len(p.reads)].n
  IN CASE p.op = "writeProtectAll" -> LegacyChunks
       [] p.op = "getProductId" /\ p.step = 3 -> {<<s>> : s \in 0..MaxSizeByte}
       [] p.op = "getProductId" /\ p.step = 4 -> [1..n -> IdBytes]
       [] p.op = "sendRequest" /\ p.step = 2 -> {<<l>> : l \in ResponseLens}
       [] p.op = "sendRequest" /\ p.step = 3 ->
            {[i \in 1..n |-> (i * k) % 256] : k \in {1, 3}}
       [] p.op = "readMemory" /\ p.step = 7 ->
            {ImageChunk(0, n), ImageChunk(1, n)}
       [] p.op = "expectAck" -> {<<b>> : b \in AckBytes}
       [] OTHER -> {<<b>> : b \in AckSamples}

\* a SerialService has been constructed on a port that is open or not
Init ==
  /\ portOpen \in BOOLEAN
  /\ conn = [reader |-> 0, writer |-> 0]
  /\ leftover = <<>>
  /\ operationLock = 0
  /\ lockResolved = [l \in Locks |-> l = 0]
  /\ prevLock = [i \in Ops |-> 0]
  /\ pc = [i \in Ops |-> "idle"]
  /\ hasSignal = [c \in Callers |-> FALSE]
  /\ aborted = [c \in Callers |-> FALSE]
  /\ err = [c \in Callers |-> "none"]
  /\ call = [c \in Callers |-> NoCall]
  /\ sent = 0
  /\ out = <<>>
  /\ started = [i \in Ops |-> FALSE]
  /\ earlyCancel = [i \in Ops |-> FALSE]
  /\ flash = NoFlash
  /\ rx = NoRx
  /\ sc = NoSc
  /\ proto = NoProto

\* readExact throws with `taken` in its buffer, the leftover being lo.  The
\* buffer is a local of the call (line 95) and no throw of readExact or of
\* readChunk assigns this.leftover: the bytes taken are dropped
LeftoverAfterThrow_pushBack(taken, lo) == taken \o lo

LeftoverAfterThrow(taken, lo) == lo

\* the async call of caller c throws e, the connection and the calls being cn
\* and cl at that moment.  In an operation the error leaves fn and reaches
\* the finally of runOperation (lines 66-69): releaseLocks, releaseLock
Raise(c, e, cn, cl) ==
  /\ err' = [err EXCEPT ![c] = e]
  /\ IF c \in Ops
       THEN /\ conn' = releaseLocks(cn)
            /\ call' = Orphan([cl EXCEPT ![c] = Ended(cl[c])], c)
            /\ pc' = [pc EXCEPT ![c] = "rejected"]
            /\ lockResolved' = releaseLock(lockResolved, c, FALSE)
       ELSE /\ conn' = cn
            /\ call' = [cl EXCEPT ![c] = [Ended(cl[c]) EXCEPT
                                             !.made = cl[c].made]]
            /\ UNCHANGED <<pc, lockResolved>>

\* readExact, its call record being rec, returns buf (line 120)
Return(c, rec, buf) ==
  /\ call' = [call EXCEPT ![c] = [Ended(rec) EXCEPT !.buf = buf,
                                                    !.made = call[c].made]]
  /\ out' = IF c = Direct THEN out \o buf ELSE out
  /\ UNCHANGED <<conn, err, pc, lockResolved>>

\* readChunk, lines 39-75: getReader, the entry check of the signal; the
\* listener and the timer are installed and reader.read() is awaited
StartPhysical(c, rec) ==
  /\ UNCHANGED out
  /\ IF ~portOpen
       THEN Raise(c, NotReadableError, [conn EXCEPT !.reader = 0], call)
       ELSE IF hasSignal'[c] /\ aborted'[c]
         THEN Raise(c, "AbortError", releaseLocks(conn), Orphan(call, c))
         ELSE /\ conn' = [conn EXCEPT !.reader = 1]
              /\ call' = [call EXCEPT ![c] =
                            Install([rec EXCEPT !.phys = "pending"],
                                    hasSignal'[c])]
              /\ UNCHANGED <<err, pc, lockResolved>>

\* readExact at the top of its loop (line 99) with the call record rec, the
\* leftover being lo: readChunk hands out the leftover first (lines 33-37)
Continue(c, rec, lo) ==
  LET buf2 == IF HasLeftover(lo) THEN Copied(lo, rec.buf, rec.len)
              ELSE rec.buf
      lo2 == IF HasLeftover(lo) THEN Excess(lo, rec.buf, rec.len, <<>>)
             ELSE lo
  IN /\ leftover' = lo2
     /\ IF Len(buf2) = rec.len
          THEN Return(c, rec, buf2)
          ELSE StartPhysical(c, [rec EXCEPT !.buf = buf2])

\* ---------------------------------------------------- connection lifecycle
\* SerialService.open
Open ==
  /\ ~portOpen
  /\ portOpen' = TRUE
  /\ UNCHANGED <<conn, leftover, call, sent, out, err>>
  /\ UNCHANGED <<schedVars, sigVars>>
  /\ UNCHANGED <<flash, rx, sc, proto>>

\* SerialService.close: releaseLocks, then the port is closed
Close ==
  /\ portOpen
  /\ conn' = releaseLocks(conn)
  /\ call' = Orphan(call, -1)
  /\ portOpen' = FALSE
  /\ UNCHANGED <<leftover, sent, out, err>>
  /\ UNCHANGED <<schedVars, sigVars>>
  /\ UNCHANGED <<flash, rx, sc, proto>>

\* ------------------------------------------------------------ the signals
\* the caller's AbortSignal fires; onAbort (readChunk lines 52-56) runs if a
\* physical read of the caller is in flight
Abort(c) ==
  /\ hasSignal[c] /\ ~aborted[c]
  /\ IF c \in Ops THEN pc[c] \in {"waiting", "running"}
                  ELSE call[c].kind = "readExact"
  /\ aborted' = [aborted EXCEPT ![c] = TRUE]
  /\ IF c \in Ops /\ pc[c] = "waiting"
       THEN earlyCancel' = [earlyCancel EXCEPT ![c] = TRUE]
       ELSE UNCHANGED earlyCancel
  /\ IF call[c].listener
       THEN /\ conn' = releaseLocks(conn)
            /\ call' = Orphan([call EXCEPT ![c].phys =
                         IF call[c].kind = "readExact" /\ @ # "cancelTimeout"
                           THEN "cancelAbort" ELSE @], c)
       ELSE UNCHANGED <<conn, call>>
  /\ UNCHANGED <<portOpen, leftover, sent, out, err, hasSignal>>
  /\ UNCHANGED <<operationLock, lockResolved, prevLock, pc, started>>
  /\ UNCHANGED <<flash, rx, sc, proto>>

\* ----------------------------------------------------------- runOperation
\* lines 36-45: the entry check, then the caller chains its lock
Call(i, sig, pre) ==
  /\ pc[i] = "idle"
  /\ \A j \in Ops : j < i => pc[j] # "idle"
  /\ hasSignal' = [hasSignal EXCEPT ![i] = sig]
  /\ aborted' = [aborted EXCEPT ![i] = sig /\ pre]
  /\ IF sig /\ pre
       THEN /\ pc' = [pc EXCEPT ![i] = "rejected"]
            /\ err' = [err EXCEPT ![i] = "AbortError"]
            /\ earlyCancel' = [earlyCancel EXCEPT ![i] = TRUE]
            /\ UNCHANGED <<operationLock, prevLock>>
       ELSE /\ prevLock' = [prevLock EXCEPT ![i] = operationLock]
            /\ operationLock' = i
            /\ pc' = [pc EXCEPT ![i] = "waiting"]
            /\ UNCHANGED <<err, earlyCancel>>
  /\ UNCHANGED <<portOpen, conn, leftover, call, sent, out>>
  /\ UNCHANGED <<lockResolved, started>>
  /\ UNCHANGED <<flash, rx, sc, proto>>

\* lines 47-64 and, when the await or the check throws, lines 66-69
Proceed(i) ==
  /\ pc[i] = "waiting"
  /\ RaceSettled(lockResolved[prevLock[i]], hasSignal[i], aborted[i])
  /\ IF MayRunFn(lockResolved[prevLock[i]], hasSignal[i], aborted[i])
       THEN /\ leftover' = <<>>
            /\ pc' = [pc EXCEPT ![i] = "running"]
            /\ started' = [started EXCEPT ![i] = TRUE]
            /\ UNCHANGED <<conn, call, err, lockResolved>>
       ELSE /\ Raise(i, "AbortError", conn, call)
            /\ UNCHANGED <<leftover, started>>
  /\ UNCHANGED <<portOpen, sent, out>>
  /\ UNCHANGED <<operationLock, prevLock, earlyCancel, sigVars>>
  /\ UNCHANGED <<flash, rx, sc, proto>>

\* fn returns: lines 65-69
BodyReturn(i) ==
  /\ pc[i] = "running" /\ call[i].kind = "none"
  /\ pc' = [pc EXCEPT ![i] = "resolved"]
  /\ conn' = releaseLocks(conn)
  /\ call' = Orphan([call EXCEPT ![i] = Ended(call[i])], i)
  /\ lockResolved' = releaseLock(lockResolved, i, TRUE)
  /\ UNCHANGED <<portOpen, leftover, sent, out, err>>
  /\ UNCHANGED <<operationLock, prevLock, started, earlyCancel, sigVars>>
  /\ UNCHANGED <<flash, rx, sc, proto>>

\* fn throws an error of its own (a protocol throws ProtocolError on the
\* bytes it has read)
BodyThrow(i) ==
  /\ pc[i] = "running" /\ call[i].kind = "none" /\ call[i].made > 0
  /\ Raise(i, "ProtocolError", conn, call)
  /\ UNCHANGED <<portOpen, leftover, sent, out>>
  /\ UNCHANGED <<operationLock, prevLock, started, earlyCancel, sigVars>>
  /\ UNCHANGED <<flash, rx, sc, proto>>

\* -------------------------------------------------------- transport calls
MayCall(c) ==
  /\ call[c].kind = "none"
  /\ IF c \in Ops THEN pc[c] = "running" /\ call[c].made < MaxCalls
                  ELSE call[c].made < MaxDirectCalls

\* readExact(n, {timeout, signal}) is called and runs up to its first
\* suspension.  The protocols pass a timeout and the signal of the
\* operation; the direct client passes what it likes
BeginRead(c, n, t, sig, pre) ==
  /\ MayCall(c)
  /\ c \in Ops => n > 0 /\ t /\ sig = hasSignal[c] /\ pre = aborted[c]
  /\ hasSignal' = [hasSignal EXCEPT ![c] = sig]
  /\ aborted' = [aborted EXCEPT ![c] = sig /\ pre]
  /\ Continue(c, [kind |-> "readExact", len |-> n, buf |-> <<>>,
                  phys |-> "none", timed |-> t, made |-> call[c].made + 1,
                  timer |-> call[c].timer, listener |-> call[c].listener],
              leftover)
  /\ UNCHANGED <<portOpen, sent>>
  /\ UNCHANGED <<operationLock, prevLock, started, earlyCancel>>
  /\ UNCHANGED <<flash, rx, sc, proto>>

\* reader.read() resolves with a chunk of k bytes (readChunk lines 75-77 and
\* 86-87); readExact copies it (lines 106-118) and goes round its loop, where
\* it finds the deadline passed (late, lines 100-103) or reads again
ReadDeliver(c, k, late) ==
  /\ call[c].kind = "readExact" /\ call[c].phys = "pending"
  /\ sent + k <= (IF c = Direct THEN MaxDirectBytes ELSE MaxBytes)
  /\ sent' = sent + k
  /\ UNCHANGED sigVars
  /\ LET chunk == Chunk(c, sent, k)
         buf2 == Copied(chunk, call[c].buf, call[c].len)
         lo2 == Excess(chunk, call[c].buf, call[c].len, leftover)
         rec == cleanup(call[c])
     IN IF Len(buf2) = call[c].len
          THEN /\ ~late
               /\ leftover' = lo2
               /\ Return(c, rec, buf2)
          ELSE IF late
            THEN /\ call[c].timed
                 /\ leftover' = LeftoverAfterThrow(buf2, lo2)
                 /\ Raise(c, "TimeoutError", conn, [call EXCEPT ![c] = rec])
                 /\ UNCHANGED out
            ELSE Continue(c, [rec EXCEPT !.buf = buf2, !.phys = "none"], lo2)
  /\ UNCHANGED <<portOpen>>
  /\ UNCHANGED <<operationLock, prevLock, started, earlyCancel>>
  /\ UNCHANGED <<flash, rx, sc, proto>>

\* reader.read() resolves with done: readChunk returns null and readExact
\* throws ConnectionError (lines 76, 106-108)
ReadStreamDone(c) ==
  /\ call[c].kind = "readExact" /\ call[c].phys \in {"pending", "orphaned"}
  /\ Raise(c, StreamClosedError, conn, [call EXCEPT ![c] = cleanup(@)])
  /\ leftover' = LeftoverAfterThrow(call[c].buf, leftover)
  /\ UNCHANGED <<portOpen, sent, out>>
  /\ UNCHANGED <<operationLock, prevLock, started, earlyCancel, sigVars>>
  /\ UNCHANGED <<flash, rx, sc, proto>>

\* reader.read() rejects although readChunk did not cancel it: the error is
\* rethrown (line 85)
ReadRejects(c) ==
  /\ call[c].kind = "readExact" /\ call[c].phys \in {"pending", "orphaned"}
  /\ Raise(c, ReadChunkError(FALSE, call[c].timed, hasSignal[c] /\ aborted[c],
                             "StreamError"),
           conn, [call EXCEPT ![c] = cleanup(@)])
  /\ leftover' = LeftoverAfterThrow(call[c].buf, leftover)
  /\ UNCHANGED <<portOpen, sent, out>>
  /\ UNCHANGED <<operationLock, prevLock, started, earlyCancel, sigVars>>
  /\ UNCHANGED <<flash, rx, sc, proto>>

\* the timer of readChunk fires (lines 67-71): it cancels the reader of its
\* call and releases the locks, whatever the caller is doing by then
TimerFires(c) ==
  /\ call[c].timer
  /\ conn' = releaseLocks(conn)
  /\ call' = Orphan([call EXCEPT ![c].timer = FALSE,
                                 ![c].phys =
                       IF call[c].kind = "readExact"
                            /\ @ \in {"pending", "orphaned"}
                         THEN "cancelTimeout" ELSE @], c)
  /\ UNCHANGED <<portOpen, leftover, sent, out, err>>
  /\ UNCHANGED <<schedVars, sigVars>>
  /\ UNCHANGED <<flash, rx, sc, proto>>

\* the read that readChunk cancelled settles.  reader.cancel() is the
\* platform's: the pending read rejects (the catch block, lines 78-85) or
\* resolves with done (line 76, then readExact lines 106-108)
ReadSettleCancelled(c, rejects) ==
  /\ call[c].kind = "readExact"
  /\ call[c].phys \in {"cancelTimeout", "cancelAbort"}
  /\ Raise(c, IF rejects
                THEN ReadChunkError(TRUE, call[c].timed,
                                    hasSignal[c] /\ aborted[c], "none")
                ELSE StreamClosedError,
           conn, [call EXCEPT ![c] = cleanup(@)])
  /\ leftover' = LeftoverAfterThrow(call[c].buf, leftover)
  /\ UNCHANGED <<portOpen, sent, out>>
  /\ UNCHANGED <<operationLock, prevLock, started, earlyCancel, sigVars>>
  /\ UNCHANGED <<flash, rx, sc, proto>>

\* write, lines 19-21: getWriter, writer.write(data) is awaited
BeginWrite(c) ==
  /\ MayCall(c)
  /\ IF ~portOpen
       THEN Raise(c, NotWritableError, [conn EXCEPT !.writer = 0],
                  [call EXCEPT ![c].made = @ + 1])
       ELSE /\ conn' = [conn EXCEPT !.writer = 1]
            /\ call' = [call EXCEPT ![c] = [Ended(call[c]) EXCEPT !.kind = "write",
                              !.phys = "pending", !.made = call[c].made + 1]]
            /\ UNCHANGED <<err, pc, lockResolved>>
  /\ UNCHANGED <<portOpen, leftover, sent, out>>
  /\ UNCHANGED <<operationLock, prevLock, started, earlyCancel, sigVars>>
  /\ UNCHANGED <<flash, rx, sc, proto>>

\* writer.write settles: lines 22-24 release the writer
WriteDone(c, ok) ==
  /\ call[c].kind = "write"
  /\ IF ok
       THEN /\ conn' = releaseWriter(conn)
            /\ call' = [call EXCEPT ![c] = [Ended(call[c]) EXCEPT
                                             !.made = call[c].made]]
            /\ UNCHANGED <<err, pc, lockResolved>>
       ELSE Raise(c, "StreamError", releaseWriter(conn), call)
  /\ UNCHANGED <<portOpen, leftover, sent, out>>
  /\ UNCHANGED <<operationLock, prevLock, started, earlyCancel, sigVars>>
  /\ UNCHANGED <<flash, rx, sc, proto>>

TransportStep(c) ==
  \/ \E n \in 0..MaxLen, t \in BOOLEAN, sig \in BOOLEAN, pre \in BOOLEAN :
       BeginRead(c, n, t, sig, pre)
  \/ \E k \in 1..MaxChunk, late \in BOOLEAN : ReadDeliver(c, k, late)
  \/ ReadStreamDone(c)
  \/ ReadRejects(c)
  \/ TimerFires(c)
  \/ \E r \in BOOLEAN : ReadSettleCancelled(c, r)
  \/ BeginWrite(c)
  \/ \E ok \in BOOLEAN : WriteDone(c, ok)
  \/ Abort(c)

\* several callers of SerialService.runOperation
Next ==
  \/ \E i \in Ops :
       \/ \E sig \in BOOLEAN, pre \in BOOLEAN : Call(i, sig, pre)
       \/ Proceed(i)
       \/ BodyReturn(i)
       \/ BodyThrow(i)
       \/ TransportStep(i)

Spec == Init /\ [][Next]_vars

\* the physical read or write of caller c settles, or its timer fires
Settle(c) ==
  \/ \E k \in 1..MaxChunk, late \in BOOLEAN : ReadDeliver(c, k, late)
  \/ ReadStreamDone(c)
  \/ ReadRejects(c)
  \/ TimerFires(c)
  \/ \E r \in BOOLEAN : ReadSettleCancelled(c, r)
  \/ \E ok \in BOOLEAN : WriteDone(c, ok)

\* the same callers when every body terminates: the continuation of a
\* settled await runs (the microtask queue), a transport call that is
\* awaited settles, and a body that awaits nothing returns or throws
Fairness ==
  \A i \in Ops :
    /\ WF_vars(Proceed(i))
    /\ WF_vars(Settle(i))
    /\ WF_vars(BodyReturn(i) \/ BodyThrow(i))

SpecLive == Spec /\ Fairness

\* one client that awaits each transport call before it makes the next
NextTransport ==
  \/ Open
  \/ Close
  \/ TransportStep(Direct)

SpecTransport == Init /\ [][NextTransport]_vars

\* ------------------------------------------- SerialConnection, its handles
scFrame == <<portOpen, conn, leftover, operationLock, lockResolved, prevLock,
             pc, hasSignal, aborted, err, call, sent, out, started,
             earlyCancel, flash, rx, proto>>

\* SerialConnection.open, lines 17-28
ScOpen ==
  /\ sc' = IF MustOpen(sc.open)
             THEN [sc EXCEPT !.open = TRUE, !.reopened = @ \/ sc.open]
             ELSE [sc EXCEPT !.noops = @ \cup {"open"}]
  /\ UNCHANGED scFrame

\* SerialConnection.close, lines 30-35; releaseLock() of a reader with a read
\* in flight may throw
ScClose(throws) ==
  /\ throws => sc.r.pending
  /\ LET r == ReleaseHandle(sc.r, throws)
         w == ReleaseHandle(sc.w, FALSE)
     IN sc' = IF MustClose(sc.open)
                THEN [sc EXCEPT !.open = FALSE, !.r = StreamGone(r),
                                !.w = StreamGone(w),
                                !.reclosed = @ \/ ~sc.open]
                ELSE [sc EXCEPT !.r = r, !.w = w,
                                !.noops = @ \cup {"close"}]
  /\ UNCHANGED scFrame

\* the device is unplugged: the port loses its streams
ScLost ==
  /\ sc.open
  /\ sc' = [sc EXCEPT !.open = FALSE, !.r = StreamGone(@), !.w = StreamGone(@)]
  /\ UNCHANGED scFrame

\* SerialConnection.getReader, lines 37-46
ScGetReader ==
  /\ sc.made < MaxHandles /\ sc.r.calls < MaxGets
  /\ LET r == GetHandle(sc.r, sc.open, sc.made + 1)
     IN sc' = [sc EXCEPT !.r = r,
                         !.made = IF r.acq > sc.r.acq THEN @ + 1 ELSE @]
  /\ UNCHANGED scFrame

\* SerialConnection.getWriter, lines 48-57
ScGetWriter ==
  /\ sc.made < MaxHandles /\ sc.w.calls < MaxGets
  /\ LET w == GetHandle(sc.w, sc.open, sc.made + 1)
     IN sc' = [sc EXCEPT !.w = w,
                         !.made = IF w.acq > sc.w.acq THEN @ + 1 ELSE @]
  /\ UNCHANGED scFrame

\* SerialConnection.releaseReader, lines 59-68
ScReleaseReader(throws) ==
  /\ sc.r.handle # 0
  /\ throws => sc.r.pending
  /\ sc' = [sc EXCEPT !.r = ReleaseHandle(@, throws)]
  /\ UNCHANGED scFrame

\* SerialConnection.releaseWriter, lines 70-79
ScReleaseWriter ==
  /\ sc.w.handle # 0
  /\ sc' = [sc EXCEPT !.w = ReleaseHandle(@, FALSE)]
  /\ UNCHANGED scFrame

\* SerialConnection.releaseLocks, lines 81-84
ScReleaseLocks(throws) ==
  /\ sc.r.handle # 0 \/ sc.w.handle # 0
  /\ throws => sc.r.pending
  /\ sc' = [sc EXCEPT !.r = ReleaseHandle(@, throws),
                      !.w = ReleaseHandle(@, FALSE)]
  /\ UNCHANGED scFrame

\* the client starts a read on the reader it was given
ScRead ==
  /\ sc.r.handle # 0 /\ sc.r.locked = sc.r.handle /\ ~sc.r.pending
  /\ sc' = [sc EXCEPT !.r.pending = TRUE]
  /\ UNCHANGED scFrame

\* a read in flight settles
ScReadSettles ==
  /\ sc.r.pending
  /\ sc' = [sc EXCEPT !.r.pending = FALSE]
  /\ UNCHANGED scFrame

NextConnection ==
  \/ ScOpen
  \/ \E t \in BOOLEAN : ScClose(t)
  \/ ScLost
  \/ ScGetReader
  \/ ScGetWriter
  \/ \E t \in BOOLEAN : ScReleaseReader(t)
  \/ ScReleaseWriter
  \/ \E t \in BOOLEAN : ScReleaseLocks(t)
  \/ ScRead
  \/ ScReadSettles

SpecConnection == Init /\ [][NextConnection]_vars

\* ------------------------------------------------- readExact and the clock
rxFrame == <<portOpen, conn, leftover, operationLock, lockResolved, prevLock,
             pc, hasSignal, aborted, err, call, sent, out, started,
             earlyCancel, flash, sc, proto>>

\* readExact(length, {timeout}) is called on an open port with no leftover
\* (lines 94-105)
RxCall(n, t) ==
  /\ rx.pc = "idle"
  /\ rx' = IF n = 0 THEN [rx EXCEPT !.pc = "returned"]
           ELSE RxLoop([rx EXCEPT !.length = n, !.timeout = t,
                                  !.startTime = rx.now])
  /\ UNCHANGED rxFrame

\* time passes; a timer that is due fires before time goes on
RxTick ==
  /\ rx.now < MaxTime
  /\ ~(rx.pc = "reading" /\ rx.timerAt # -1 /\ rx.now >= rx.timerAt)
  /\ rx' = [rx EXCEPT !.now = @ + 1]
  /\ UNCHANGED rxFrame

\* reader.read() resolves with a chunk of k bytes: readChunk clears its timer
\* (lines 75-77, 86-88), readExact copies (lines 110-118) and loops
RxDeliver(k) ==
  /\ rx.pc = "reading"
  /\ LET toCopy == Min(k, rx.length - rx.offset)
         r == [rx EXCEPT !.offset = @ + toCopy, !.chunks = @ + 1,
                         !.timerAt = -1]
     IN rx' = IF r.offset < r.length THEN RxLoop(r)
              ELSE [r EXCEPT !.pc = "returned"]
  /\ UNCHANGED rxFrame

\* the timer of readChunk fires (lines 67-71): the read is cancelled
RxTimerFires ==
  /\ rx.pc = "reading" /\ rx.timerAt # -1 /\ rx.now >= rx.timerAt
  /\ rx' = [rx EXCEPT !.pc = "cancelled", !.timerAt = -1, !.expired = TRUE]
  /\ UNCHANGED rxFrame

\* the cancelled read settles: it rejects (lines 78-83) or it resolves with
\* done (line 76, then readExact lines 106-108)
RxSettleCancelled(rejects) ==
  /\ rx.pc = "cancelled"
  /\ rx' = [rx EXCEPT !.pc = "failed",
                      !.err = IF rejects
                                THEN ReadChunkError(TRUE, HasTimeout(rx.timeout),
                                                    FALSE, "none")
                                ELSE StreamClosedError]
  /\ UNCHANGED rxFrame

\* the stream ends while the read is pending (line 76, lines 106-108)
RxStreamDone ==
  /\ rx.pc = "reading"
  /\ rx' = [rx EXCEPT !.pc = "failed", !.err = StreamClosedError,
                      !.timerAt = -1]
  /\ UNCHANGED rxFrame

NextDeadline ==
  \/ \E n \in 0..MaxRxLen, t \in 0..MaxTimeout : RxCall(n, t)
  \/ RxTick
  \/ \E k \in 1..MaxChunk : RxDeliver(k)
  \/ RxTimerFires
  \/ \E r \in BOOLEAN : RxSettleCancelled(r)
  \/ RxStreamDone

SpecDeadline == Init /\ [][NextDeadline]_vars

\* ------------------------------------------------------------------ flash
flashFrame == <<portOpen, conn, leftover, operationLock, lockResolved, prevLock,
                pc, hasSignal, aborted, err, call, sent, out, started,
                earlyCancel, rx, sc, proto>>

\* flash(firmwareData, onProgress, signal) is called: lines 50-60
FlashStart(n) ==
  /\ flash.pc = "idle"
  /\ flash' = [Report([flash EXCEPT !.total = n], "entering-bootloader", 0)
                 EXCEPT !.pc = "setSignals1"]
  /\ UNCHANGED flashFrame

\* a setSignals of the bootloader entry sequence settles: lines 60-65
FlashSetSignalsDone(ok) ==
  /\ flash.pc \in {"setSignals1", "setSignals2", "setSignals3"}
  /\ flash' = IF ~ok THEN Catch(flash, Err("StreamError"))
              ELSE [Log(flash, EntrySignals(flash.pc)) EXCEPT !.pc =
                      CASE @ = "setSignals1" -> "wait1"
                        [] @ = "setSignals2" -> "wait2"
                        [] @ = "setSignals3" -> "wait3"]
  /\ UNCHANGED flashFrame

\* the timer of a wait fires (lines 27-35); flash goes on to its next await
FlashWaitDone ==
  /\ flash.pc \in {"wait1", "wait2", "wait3", "waitUnprotect"}
  /\ flash' = CASE flash.pc = "wait1" -> [flash EXCEPT !.pc = "setSignals2"]
                [] flash.pc = "wait2" -> [flash EXCEPT !.pc = "setSignals3"]
                [] flash.pc = "wait3" -> EnterOperation(flash)
                [] flash.pc = "waitUnprotect" ->
                     [Issue(flash, "init") EXCEPT !.pc = "init2"]
  /\ UNCHANGED flashFrame

\* the signal of flash fires: a wait in progress rejects with signal.reason
\* (lines 30-33); a command in progress sees it in readChunk
FlashAbort ==
  /\ flash.pc \notin {"idle", "done"} /\ ~flash.aborted
  /\ flash' = IF flash.pc \in {"wait1", "wait2", "wait3", "waitUnprotect"}
                THEN Catch([flash EXCEPT !.aborted = TRUE], Err("AbortError"))
                ELSE [flash EXCEPT !.aborted = TRUE]
  /\ UNCHANGED flashFrame

\* stm32.init settles: lines 70-72
FlashInitDone(o) ==
  /\ flash.pc = "init" /\ o \in CommandOutcomes(flash)
  /\ flash' = IF o # "ok" THEN Catch(flash, Err(o))
              ELSE [Issue(flash, "getProductId") EXCEPT !.pc = "getProductId"]
  /\ UNCHANGED flashFrame

\* stm32.getProductId settles: lines 72-79
FlashGetProductIdDone(o, pid) ==
  /\ flash.pc = "getProductId" /\ o \in CommandOutcomes(flash)
  /\ flash' =
       IF o # "ok" THEN Catch(flash, Err(o))
       ELSE LET f == [flash EXCEPT !.badId = pid # PRODUCT_ID]
            IN IF ~ProductIdOk(pid) THEN Catch(f, ProductIdErr(pid))
               ELSE [Issue(Report(f, "unprotecting", 0), "writeUnprotect")
                       EXCEPT !.pc = "writeUnprotect"]
  /\ UNCHANGED flashFrame

\* stm32.writeUnprotect settles: lines 79-80
FlashWriteUnprotectDone(o) ==
  /\ flash.pc = "writeUnprotect" /\ o \in CommandOutcomes(flash)
  /\ flash' = IF o # "ok" THEN Catch(flash, Err(o))
              ELSE [flash EXCEPT !.pc = "waitUnprotect"]
  /\ UNCHANGED flashFrame

\* the second stm32.init settles: lines 81-87; erasePages returns at once
\* for an empty list of pages
FlashInit2Done(o) ==
  /\ flash.pc = "init2" /\ o \in CommandOutcomes(flash)
  /\ flash' = IF o # "ok" THEN Catch(flash, Err(o))
              ELSE LET f == Issue(Report(flash, "erasing", 0), "erasePages")
                   IN IF Ceil(flash.total, FLASH_PAGE_SIZE) = 0
                        THEN WriteLoop(Report(f, "writing", 0))
                        ELSE [f EXCEPT !.pc = "erasePages"]
  /\ UNCHANGED flashFrame

\* stm32.erasePages settles: lines 87-95
FlashErasePagesDone(o) ==
  /\ flash.pc = "erasePages" /\ o \in CommandOutcomes(flash)
  /\ flash' = IF o # "ok" THEN Catch(flash, Err(o))
              ELSE WriteLoop(Report(
                     [flash EXCEPT !.erased = Ceil(flash.total, FLASH_PAGE_SIZE)],
                     "writing", 0))
  /\ UNCHANGED flashFrame

\* stm32.writeMemory settles: lines 99-108
FlashWriteMemoryDone(o) ==
  /\ flash.pc = "writeMemory" /\ o \in CommandOutcomes(flash)
  /\ flash' =
       IF o # "ok" THEN Catch(flash, Err(o))
       ELSE LET w == flash.written + Min(writeChunkSize, flash.total - flash.written)
            IN WriteLoop(Report([flash EXCEPT !.written = w], "writing",
                                Round(w * 50, flash.total)))
  /\ UNCHANGED flashFrame

\* stm32.readMemory settles: lines 120-134.  The device returns the chunk of
\* the image (flip = 0) or a chunk whose byte flip differs
FlashReadMemoryDone(o, flip) ==
  /\ flash.pc = "readMemory" /\ o \in CommandOutcomes(flash)
  /\ LET length == Min(readChunkSize, flash.total - flash.verified)
         address == ChunkAddress(flash.verified)
         originalChunk == ImageChunk(flash.verified, length)
         readData == IF flip = 0 THEN originalChunk
                     ELSE [originalChunk EXCEPT ![flip] = (@ + 1) % 256]
     IN /\ flip \in 0..length
        /\ o # "ok" => flip = 0
        /\ flash' =
             IF o # "ok" THEN Catch(flash, Err(o))
             ELSE IF ~compareUint8Arrays(readData, originalChunk)
               THEN Catch([flash EXCEPT !.mismatch =
                             IF readData # originalChunk THEN address ELSE @],
                          VerifyErr(address))
               ELSE LET v == flash.verified + length
                    IN VerifyLoop(Report(
                         [flash EXCEPT !.verified = v, !.mismatch =
                            IF readData # originalChunk THEN address ELSE @],
                         "verifying", 50 + Round(v * 50, flash.total)))
  /\ UNCHANGED flashFrame

\* resetMcu of the success path settles: lines 139-141
FlashResetDone(ok) ==
  /\ flash.pc = "reset"
  /\ flash' = IF ok
                THEN [Report(flash, "complete", 100) EXCEPT !.pc = "done",
                                                           !.result = "resolved"]
                ELSE Catch(flash, Err("StreamError"))
  /\ UNCHANGED flashFrame

\* resetMcu of the catch block settles, its own failure being ignored:
\* lines 151-154
FlashResetOnErrorDone(ok) ==
  /\ flash.pc = "resetOnError"
  /\ flash' = [flash EXCEPT !.pc = "done", !.result = "rejected",
                            !.thrown = flash.failure]
  /\ UNCHANGED flashFrame

NextFlash ==
  \/ \E n \in ImageSizes : FlashStart(n)
  \/ \E ok \in BOOLEAN : FlashSetSignalsDone(ok)
  \/ FlashWaitDone
  \/ FlashAbort
  \/ \E o \in CommandOutcomes(flash) : FlashInitDone(o)
  \/ \E o \in CommandOutcomes(flash), pid \in ProductIds : FlashGetProductIdDone(o, pid)
  \/ \E o \in CommandOutcomes(flash) : FlashWriteUnprotectDone(o)
  \/ \E o \in CommandOutcomes(flash) : FlashInit2Done(o)
  \/ \E o \in CommandOutcomes(flash) : FlashErasePagesDone(o)
  \/ \E o \in CommandOutcomes(flash) : FlashWriteMemoryDone(o)
  \/ \E o \in CommandOutcomes(flash), flip \in 0..readChunkSize : FlashReadMemoryDone(o, flip)
  \/ \E ok \in BOOLEAN : FlashResetDone(ok)
  \/ \E ok \in BOOLEAN : FlashResetOnErrorDone(ok)

SpecFlash == Init /\ [][NextFlash]_vars

\* --------------------------------------------------- the protocol methods
protoFrame == <<portOpen, conn, leftover, operationLock, lockResolved,
                prevLock, pc, hasSignal, aborted, err, call, sent, out,
                started, earlyCancel, flash, rx, sc>>

\* a method is called on a new protocol object, whose transport has
\* recorded no call yet
ProtoCall(op, arg, address) ==
  /\ proto.pc = "idle"
  /\ proto' = Resume([NoProto EXCEPT !.op = op, !.arg = arg,
                                     !.address = address], <<>>)
  /\ UNCHANGED protoFrame

\* the pending transport.write resolves
ProtoWriteDone ==
  /\ proto.pc = "write"
  /\ proto' = Resume(proto, <<>>)
  /\ UNCHANGED protoFrame

\* the pending transport.write rejects; writeAndReadSerial catches it
\* (serialCommunication, lines 84-93), the protocol classes let it through
ProtoWriteFails ==
  /\ proto.pc = "write"
  /\ proto' = IF proto.op = "writeProtectAll"
                THEN writeProtectAll([proto EXCEPT !.step = @ + 1],
                                     [data |-> <<>>,
                                      error |-> "Communication error"])
                ELSE ProtoThrow(proto, WriteFailure)
  /\ UNCHANGED protoFrame

\* the pending read resolves with the bytes got
ProtoReadDone(got) ==
  /\ proto.pc = "read"
  /\ got \in ReadData(proto)
  /\ proto' = Resume(proto, got)
  /\ UNCHANGED protoFrame

\* the pending read rejects; readSerial catches it (lines 55-58)
ProtoReadFails ==
  /\ proto.pc = "read"
  /\ proto' = IF proto.op = "writeProtectAll"
                THEN writeProtectAll(proto, [data |-> <<>>,
                                             error |-> "TimeoutError"])
                ELSE ProtoThrow(proto, ReadFailure)
  /\ UNCHANGED protoFrame

NextProtocol ==
  \/ \E data \in SeqsUpTo(ChecksumBytes, MaxChecksumLen) :
       ProtoCall("appendChecksum", data, 0)
  \/ ProtoCall("expectAck", <<>>, 0)
  \/ ProtoCall("getProductId", <<>>, 0)
  \/ \E pages \in SeqsUpTo(SamplePages, MaxPages) :
       ProtoCall("erasePages", pages, 0)
  \/ ProtoCall("eraseAll", <<>>, 0)
  \/ \E n \in DataLens :
       ProtoCall("writeMemory", ImageChunk(0, n), PROGRAM_FLASH_START_ADDRESS)
  \/ \E n \in DataLens :
       ProtoCall("readMemory", <<n>>, PROGRAM_FLASH_START_ADDRESS)
  \/ ProtoCall("writeProtectAll", <<>>, 0)
  \/ \E n \in RequestLens : ProtoCall("sendRequest", RequestData(n), 0)
  \/ ProtoWriteDone
  \/ ProtoWriteFails
  \/ \E got \in ReadData(proto) : ProtoReadDone(got)
  \/ ProtoReadFails

SpecProtocol == Init /\ [][NextProtocol]_vars

\* ================================================================= claims

\* C1: at most one runOperation body executes at a time: no reachable state
\* has two operation bodies both started and not yet finished.
C1_AtMostOneBody == Cardinality({i \in Ops : pc[i] = "running"}) <= 1

\* C2: as long as every readExact of a sequence of calls has succeeded, the
\* bytes returned so far, followed by the bytes of the call in progress and
\* by the leftover, are exactly the bytes of the physical chunks in order:
\* the results are a prefix of the stream, no byte lost, none duplicated.
C2_ReadExactKeepsTheStream ==
  err[Direct] = "none" =>
    out \o (IF call[Direct].kind = "readExact" THEN call[Direct].buf ELSE <<>>)
        \o leftover
      = Chunk(Direct, 0, sent)

C2_Witness ==
  /\ err[Direct] = "none"
  /\ call[Direct].made >= 2 /\ call[Direct].kind = "none"
  /\ Len(out) = 3 /\ Len(leftover) = 1 /\ sent = 4

\* C3: a readExact inside a scheduled operation never returns bytes that
\* were physically read during an earlier scheduled operation.
C3_NoBytesOfEarlierOperation ==
  \A i \in Ops : \A k \in 1..Len(call[i].buf) : ~(call[i].buf[k][2] < i)

\* C4: an operation whose signal fired before its turn (at the call or while
\* it waited) never invokes fn and fails, and it does not block the queue:
\* a waiter behind a settled operation always finds the lock released.
C4_CancelledWaiterNeitherRunsNorBlocks ==
  /\ \A i \in Ops : earlyCancel[i] => ~started[i] /\ pc[i] \in {"waiting", "rejected"}
  /\ \A j \in Ops :
       (pc[j] = "waiting" /\ prevLock[j] # 0
          /\ pc[prevLock[j]] \in {"resolved", "rejected"})
         => RaceSettled(lockResolved[prevLock[j]], hasSignal[j], aborted[j])
            /\ lockResolved[prevLock[j]]

C4_Witness ==
  \E i \in Ops, j \in Ops :
    /\ earlyCancel[i] /\ pc[i] = "rejected" /\ err[i] = "AbortError"
    /\ prevLock[j] = i /\ started[j]

\* C5: operation bodies run in the order of arrival: for two calls A then B
\* that are both not cancelled, B's body does not start before A's body has
\* finished.
C5_Fifo ==
  \A a \in Ops, b \in Ops :
    (a < b /\ pc[a] # "idle" /\ ~aborted[a] /\ ~aborted[b] /\ started[b])
      => pc[a] \in {"resolved", "rejected"}

\* C6: whether fn returns or throws, when runOperation settles the
\* connection holds neither a reader nor a writer and the lock of the
\* operation is resolved for the next waiter.
C6_SettleReleasesEverything ==
  [][\A i \in Ops :
       (pc[i] = "running" /\ pc'[i] \in {"resolved", "rejected"})
         => conn'.reader = 0 /\ conn'.writer = 0 /\ lockResolved'[i]]_vars

C6_Witness ==
  \E i \in Ops, j \in Ops :
    /\ started[i] /\ pc[i] = "rejected" /\ err[i] = "TimeoutError"
    /\ conn = [reader |-> 0, writer |-> 0]
    /\ prevLock[j] = i /\ pc[j] = "running"

\* C7: if the signal fires while a readExact of a scheduled operation is
\* pending, the operation rejects with an AbortError, the locks of the
\* connection are released and the lock is handed on.
C7_CancelledReadRejectsWithAbortError ==
  [][\A i \in Ops :
       (call[i].phys = "cancelAbort" /\ pc'[i] = "rejected")
         => err'[i] = "AbortError" /\ conn' = releaseLocks(conn')
            /\ lockResolved'[i]]_vars

\* C8: on any failure of flash (protocol error, product-ID mismatch, verify
\* mismatch, timeout or cancellation) the MCU reset sequence has been
\* attempted by the time flash returns.
C8_ResetAttemptedOnAnyFailure ==
  (flash.pc = "done" /\ flash.failure # NoErr) => flash.resets >= 1

\* C9: on any failure of flash, cancellation included, the promise of flash
\* rejects with the error that was caught, whether or not the best-effort
\* reset succeeded.
C9_FailureIsPropagated ==
  (flash.pc = "done" /\ flash.failure # NoErr)
     => flash.result = "rejected" /\ flash.thrown = flash.failure

\* C10: `complete` is reported only if every chunk read back in the verify
\* loop equalled the bytes of the image; once a chunk differs, flash fails
\* with the error naming the address of that chunk and never reports
\* `complete`.
C10_CompleteOnlyIfVerified ==
  /\ "complete" \in flash.reported => flash.mismatch = -1
  /\ flash.mismatch # -1 =>
       /\ flash.failure = VerifyErr(flash.mismatch)
       /\ "complete" \notin flash.reported
       /\ flash.pc = "done" =>
            flash.result = "rejected" /\ flash.thrown = VerifyErr(flash.mismatch)

\* the second chunk of a 512-byte image was read back with a wrong byte and
\* flash has settled
C10_Witness ==
  /\ flash.pc = "done" /\ flash.total = 512 /\ flash.verified = readChunkSize
  /\ flash.mismatch = PROGRAM_FLASH_START_ADDRESS + readChunkSize
  /\ flash.state = "error"

\* C11: for an image of N bytes, when writing has completed exactly
\* ceil(N/256) writeMemory calls have been made and the progress reported is
\* 50; when verification has completed exactly ceil(N/256) readMemory calls
\* have been made, all of them after the last writeMemory call, and the
\* progress reported is 100 (4 and 4 calls for N = 1024).
C11_ChunkCountsAndProgress ==
  /\ "verifying" \in flash.reported =>
       /\ flash.writes = Ceil(flash.total, 256)
       /\ flash.total > 0 => flash.pct["writing"] = 50
  /\ (flash.state = "verifying" /\ flash.verified = 0) => flash.progress = 50
  /\ "resetting" \in flash.reported =>
       /\ flash.reads = Ceil(flash.total, 256)
       /\ flash.writes = Ceil(flash.total, 256)
       /\ ~flash.writeAfterRead
       /\ flash.total > 0 => flash.pct["verifying"] = 100
       /\ flash.pct["resetting"] = 100
  /\ flash.state = "complete" => flash.progress = 100

\* a 1024-byte image has been flashed with 4 writes and 4 reads
C11_Witness ==
  /\ flash.state = "complete" /\ flash.result = "resolved"
  /\ flash.total = 1024 /\ flash.writes = 4 /\ flash.reads = 4
  /\ flash.pct["writing"] = 50 /\ flash.pct["verifying"] = 100

\* the phases of a flash in the order of the FlasherState type
PhaseOrder ==
  <<"entering-bootloader", "initializing", "unprotecting", "erasing",
    "writing", "verifying", "resetting", "complete">>

IsPrefix(p, q) == Len(p) <= Len(q) /\ \A i \in 1..Len(p) : p[i] = q[i]

\* C12: the phases reported in one run of flash are entering-bootloader,
\* initializing, unprotecting, erasing, writing, verifying, resetting,
\* complete in this order without going back; a failing run leaves the order
\* only for `error` (or `idle` on cancellation), which is the last report.
C12_PhasesInOrder ==
  LET ph == flash.phases
      n == Len(ph)
  IN \/ IsPrefix(ph, PhaseOrder)
     \/ /\ n > 0 /\ ph[n] \in {"error", "idle"}
        /\ IsPrefix(SubSeq(ph, 1, n - 1), PhaseOrder)

\* a run that failed while verifying has settled
C12_Witness ==
  /\ flash.pc = "done" /\ flash.result = "rejected"
  /\ flash.phases = SubSeq(PhaseOrder, 1, 6) \o <<"error">>

\* C13: once getProductId has returned an ID other than the expected one the
\* flash is aborted with the product-ID error: no writeUnprotect, erasePages,
\* writeMemory or readMemory is called and `complete` is never reported.
C13_WrongProductIdAborts ==
  flash.badId =>
    /\ flash.issued \cap {"writeUnprotect", "erasePages", "writeMemory",
                          "readMemory"} = {}
    /\ flash.writes = 0 /\ flash.reads = 0
    /\ "complete" \notin flash.reported
    /\ flash.failure.name = "Incorrect product ID"
    /\ flash.pc \in {"resetOnError", "done"}
    /\ flash.pc = "done" => flash.result = "rejected"

\* the device answered with another product ID and flash has rejected
C13_Witness ==
  /\ flash.badId /\ flash.pc = "done" /\ flash.result = "rejected"
  /\ flash.thrown = ProductIdErr(1040) /\ flash.issued = {"init", "getProductId"}

\* C14: whatever the length of the image, every length flash passes to
\* writeMemory or readMemory is a multiple of 4 between 1 and 256.
C14_ChunkLengthsAligned ==
  \A n \in flash.lens : n % 4 = 0 /\ n >= 1 /\ n <= 256

\* C15: the timeout of readExact is one deadline for the whole call: the
\* timer of every sub-read is due at startTime + timeout, no read is pending
\* after that instant, and when the budget is used up before length bytes
\* are collected readExact fails with TimeoutError, however many chunks have
\* arrived.
C15_SingleDeadline ==
  /\ (rx.pc = "reading" /\ HasTimeout(rx.timeout)) =>
       rx.timerAt = rx.startTime + rx.timeout /\ rx.now <= rx.timerAt
  /\ (rx.expired /\ rx.pc = "failed") => rx.err = "TimeoutError"

\* C16: when the timer of readChunk has fired on a pending physical read
\* (and the caller's signal has not), the read is cancelled and the call
\* fails with TimeoutError, not with another error.
C16_TimeoutGivesTimeoutError ==
  [][\A c \in Callers :
       (/\ call[c].phys = "cancelTimeout"
        /\ ~(hasSignal[c] /\ aborted[c])
        /\ call'[c].kind = "none")
         => err'[c] = "TimeoutError"]_vars

\* C17: when the stream signals end-of-data while the read of a scheduled
\* operation is pending, the operation rejects with the ConnectionError
\* 'Stream closed before receiving expected length'.
C17_StreamEndIsConnectionError ==
  [][\A i \in Ops :
       ReadStreamDone(i) =>
         /\ pc'[i] = "rejected"
         /\ err'[i] =
              "ConnectionError: Stream closed before receiving expected length"]_vars

\* an operation without a signal has rejected with the stream-closed error
\* and the next operation is running
C17_Witness ==
  \E i \in Ops, j \in Ops :
    /\ started[i] /\ ~hasSignal[i] /\ pc[i] = "rejected"
    /\ err[i] = StreamClosedError
    /\ prevLock[j] = i /\ pc[j] = "running" /\ call[j].phys = "pending"

\* C18: when a readExact of the direct client fails by timeout or by
\* cancellation, the connection holds no reader at the moment the call
\* returns.
C18_FailedReadHoldsNoReader ==
  [][(/\ call[Direct].kind = "readExact"
      /\ call'[Direct].kind = "none" /\ call'[Direct].buf = <<>>
      /\ err'[Direct] \in {"TimeoutError", "AbortError"})
        => conn'.reader = 0]_vars

\* C19: write does not release the writer: when write has returned, the
\* connection still holds the writer it acquired.
C19_WriteKeepsTheWriter ==
  [][(/\ call[Direct].kind = "write" /\ call'[Direct].kind = "none"
      /\ err'[Direct] = err[Direct])
        => conn'.writer = 1]_vars

\* C20: between two releases the getReader (getWriter) calls all return the
\* same handle and take a reader (writer) from the stream at most once; the
\* handle the connection holds on a live stream is the one holding the lock
\* of that stream, so it holds at most one active reader and one active
\* writer.
C20_OneReaderOneWriter ==
  \A x \in {sc.r, sc.w} :
    /\ x.acq <= 1
    /\ x.same
    /\ x.calls > 0 /\ x.handle # 0 => x.ret = x.handle
    /\ (x.handle # 0 /\ x.locked # 0) => x.locked = x.handle

\* getReader was called twice in a row and getWriter twice in a row; each
\* took one handle from its stream
C20_Witness ==
  /\ sc.open
  /\ sc.r.calls = 2 /\ sc.r.acq = 1 /\ sc.r.handle # 0
  /\ sc.w.calls = 2 /\ sc.w.acq = 1 /\ sc.w.handle # 0
  /\ sc.r.handle # sc.w.handle

\* C21: open on an open connection and close on a closed one return without
\* calling port.open() or port.close() again and leave the port as it is;
\* close on an open connection leaves the connection without reader and
\* writer and the port closed.
C21_OpenCloseIdempotent ==
  [][/\ ~sc'.reopened /\ ~sc'.reclosed
     /\ (ScOpen /\ sc.open) => (sc'.open /\ sc'.r = sc.r /\ sc'.w = sc.w)
     /\ \A t \in BOOLEAN :
          ScClose(t) =>
            /\ sc'.r.handle = 0 /\ sc'.w.handle = 0 /\ ~sc'.open
            /\ ~sc.open => (sc'.r.locked = sc.r.locked /\ sc'.made = sc.made)]_vars

\* open was called on an open connection and close on a closed one; a close
\* of the open connection had released a reader and a writer
C21_Witness ==
  /\ sc.noops = {"open", "close"} /\ ~sc.open
  /\ sc.made >= 2 /\ sc.r.handle = 0 /\ sc.w.handle = 0

\* C22: expectAck returns if and only if the byte it read is ACK; for any
\* other byte it throws a ProtocolError, and the one it throws for NACK has
\* a message no other byte gives.
C22_ExpectAckIffAck ==
  [][\A b \in AckBytes :
       (proto.op = "expectAck" /\ ProtoReadDone(<<b>>)) =>
         /\ proto'.pc = "done"
         /\ proto'.returned <=> b = ACK
         /\ b # ACK => proto'.error.name = "ProtocolError"
         /\ b = ACK => proto'.error = NoProtocolError
         /\ b = NACK =>
              \A c \in AckBytes \ {ACK, NACK} :
                proto'.error.message # AckError(c).message]_vars

\* expectAck has read NACK and thrown
C22_Witness ==
  /\ proto.op = "expectAck" /\ proto.pc = "done" /\ ~proto.returned
  /\ proto.error.message = "Received NACK from bootloader"

\* s[1] ^ s[2] ^ ... ^ s[Len(s)]
RECURSIVE XorReduce(_)
XorReduce(s) ==
  IF Len(s) = 0 THEN 0 ELSE Xor(s[1], XorReduce(Tail(s)))

\* C24: appendChecksum returns its argument followed by one byte, the XOR
\* of the argument's bytes, so that the XOR of all bytes of the result is 0.
C24_ChecksumXorsToZero ==
  (proto.op = "appendChecksum" /\ proto.pc = "done") =>
    /\ proto.returned
    /\ Len(proto.bytes) = Len(proto.arg) + 1
    /\ SubSeq(proto.bytes, 1, Len(proto.arg)) = proto.arg
    /\ proto.bytes[Len(proto.bytes)] = XorReduce(proto.arg)
    /\ XorReduce(proto.bytes) = 0

\* appendChecksum has returned 0x11, 0x22, 0x33 for 0x11, 0x22
C24_Witness ==
  /\ proto.op = "appendChecksum" /\ proto.pc = "done"
  /\ proto.arg = <<17, 34>> /\ proto.bytes = <<17, 34, 51>>

\* C23: writeMemory called with data of length 0, of a length that is not a
\* multiple of 4, or of a length above 256 throws ProtocolError and has
\* made no write and no read on the transport.
C23_WriteMemoryRejectsBadLength ==
  (/\ proto.op = "writeMemory"
   /\ \/ Len(proto.arg) = 0
      \/ Len(proto.arg) % 4 # 0
      \/ Len(proto.arg) > 256) =>
    /\ proto.pc = "done" /\ ~proto.returned
    /\ proto.error.name = "ProtocolError"
    /\ proto.writes = <<>> /\ proto.reads = <<>>

\* writeMemory was called with 260 bytes, a multiple of 4 above 256, and
\* has thrown
C23_Witness ==
  /\ proto.op = "writeMemory" /\ Len(proto.arg) = 260
  /\ proto.pc = "done" /\ proto.error.name = "ProtocolError"

\* C25: eraseAll makes exactly two writes, and the second starts with the
\* count 0x01, 0xFF (511), then page 0 as 0x00, 0x00 and page 1 as
\* 0x00, 0x01.
C25_EraseAllPayload ==
  (proto.op = "eraseAll" /\ proto.returned) =>
    /\ Len(proto.writes) = 2
    /\ SubSeq(proto.writes[2], 1, 6) = <<1, 255, 0, 0, 0, 1>>

\* the frame erasePages is to write after the command: frame is the count
\* len(pages) - 1 and the page indices in order, each as two big-endian
\* bytes, and then the XOR of those bytes
IsErasePayload(frame, pages) ==
  /\ Len(frame) = 2 * Len(pages) + 3
  /\ \A k \in 1..Len(frame) : frame[k] \in 0..255
  /\ frame[1] * 256 + frame[2] = Len(pages) - 1
  /\ \A i \in 1..Len(pages) :
       frame[2 * i + 1] * 256 + frame[2 * i + 2] = pages[i]
  /\ frame[Len(frame)] = XorReduce(SubSeq(frame, 1, Len(frame) - 1))

\* C26: erasePages with an empty list returns without a write or a read;
\* otherwise it writes the ERASE_EXTENDED command, then, only once ACK was
\* read, one payload (count, pages, checksum), and nothing else.
C26_ErasePagesPayload ==
  [][/\ (proto'.op = "erasePages" /\ Len(proto'.arg) = 0) =>
          /\ proto'.pc = "done" /\ proto'.returned
          /\ proto'.writes = <<>> /\ proto'.reads = <<>>
     /\ (proto'.op = "erasePages" /\ Len(proto'.arg) > 0) =>
          /\ Len(proto'.writes) \in {1, 2}
          /\ proto'.writes[1] = <<68, 187>>
          /\ Len(proto'.writes) = 2 =>
               IsErasePayload(proto'.writes[2], proto'.arg)
          /\ proto'.returned => Len(proto'.writes) = 2
     /\ (proto.op = "erasePages" /\ Len(proto'.writes) > Len(proto.writes)) =>
          /\ Len(proto.reads) = 1
          /\ ProtoReadDone(<<ACK>>)]_vars

\* erasePages([1, 511]) has returned after both writes
C26_Witness ==
  /\ proto.op = "erasePages" /\ proto.arg = <<1, 511>>
  /\ proto.returned /\ Len(proto.writes) = 2

Digit(x, k) == IF k >= 4 THEN 0 ELSE (x \div 256^k) % 256

\* C28: getProductId writes GET_ID, reads an ACK, the size byte s, s + 1 ID
\* bytes and an ACK, and returns the non-negative integer whose base-256
\* digits are the ID bytes, first byte first.
C28_ProductIdBigEndian ==
  (proto.op = "getProductId" /\ proto.returned) =>
    /\ proto.writes = <<<<2, 253>>>>
    /\ Len(proto.reads) = 4
    /\ proto.reads[1].n = 1 /\ proto.reads[2].n = 1 /\ proto.reads[4].n = 1
    /\ proto.reads[3].n = Len(proto.idBytes)
    /\ proto.id >= 0
    /\ \A i \in 1..Len(proto.idBytes) :
         Digit(proto.id, Len(proto.idBytes) - i) = proto.idBytes[i]

\* C29: sendRequest with a serialized request longer than 127 bytes throws
\* ProtocolError and writes nothing; otherwise it writes one frame, the
\* length of the payload followed by the payload.
C29_RequestFrame ==
  proto.op = "sendRequest" =>
    /\ Len(proto.arg) > 127 =>
         /\ proto.pc = "done" /\ ~proto.returned
         /\ proto.error.name = "ProtocolError"
         /\ proto.writes = <<>>
    /\ Len(proto.arg) <= 127 =>
         /\ Len(proto.writes) = 1
         /\ proto.writes[1][1] = Len(proto.arg)
         /\ Tail(proto.writes[1]) = proto.arg

\* sendRequest was called with a request of 128 bytes and has thrown
C29_Witness ==
  /\ proto.op = "sendRequest" /\ Len(proto.arg) = 128
  /\ proto.pc = "done" /\ proto.error.name = "ProtocolError"

\* C30: after its write sendRequest reads one byte L; for L above 127 it
\* throws ProtocolError and for L = 0 it returns the empty response, both
\* without another read; otherwise it reads L bytes, once, and returns
\* what they decode to.
C30_ResponseLength ==
  [][/\ (proto.op = "sendRequest" /\ ProtoWriteDone) =>
          /\ proto'.pc = "read"
          /\ proto'.reads = <<[n |-> 1, timeout |-> 1000]>>
     /\ \A l \in ResponseLens :
          (proto.op = "sendRequest" /\ Len(proto.reads) = 1
           /\ ProtoReadDone(<<l>>)) =>
            /\ l > 127 =>
                 /\ proto'.pc = "done" /\ ~proto'.returned
                 /\ proto'.error.name = "ProtocolError"
                 /\ proto'.reads = proto.reads
            /\ l = 0 =>
                 /\ proto'.pc = "done" /\ proto'.returned
                 /\ proto'.response = fromBinary(<<>>)
                 /\ proto'.reads = proto.reads
            /\ l \in 1..127 =>
                 /\ proto'.pc = "read"
                 /\ proto'.reads =
                      Append(proto.reads, [n |-> l, timeout |-> 1000])
     /\ \A got \in ReadData(proto) :
          (proto.op = "sendRequest" /\ Len(proto.reads) = 2
           /\ ProtoReadDone(got)) =>
            /\ Len(got) = proto.reads[2].n
            /\ proto'.pc = "done" /\ proto'.returned
            /\ proto'.response = fromBinary(got)
            /\ proto'.reads = proto.reads]_vars

\* sendRequest has read the length byte 129 and thrown without another read
C30_Witness ==
  /\ proto.op = "sendRequest" /\ proto.pc = "done"
  /\ proto.error.message = "Response too long (max 127 bytes)"
  /\ Len(proto.reads) = 1

\* the awaits of flash that observe its signal: the waits, and the commands
\* of the bootloader protocol through readChunk
ObservesSignal(p) ==
  p \in {"wait1", "wait2", "wait3", "waitUnprotect", "init", "getProductId",
         "writeUnprotect", "init2", "erasePages", "writeMemory", "readMemory"}

\* C31: when flash ends because its signal fired, it reports the cancelled
\* outcome ('idle') and never 'error'; when it ends by a fault with the
\* signal not fired, it reports 'error' and never the cancelled outcome.
C31_CancelIsNotError ==
  [][(flash'.failure # flash.failure) =>
       /\ (flash'.aborted /\ ObservesSignal(flash.pc)) =>
            /\ flash'.state = "idle"
            /\ "error" \notin flash'.reported
       /\ ~flash'.aborted =>
            /\ flash'.state = "error"
            /\ "idle" \notin flash'.reported]_vars

\* the order the claim gives to the commands of a flash
CommandOrder ==
  <<"init", "getProductId", "writeUnprotect", "init", "erasePages",
    "writeMemory", "readMemory">>

\* the three-step signal sequence of the claim
EntrySequence == <<"DTR=0,RTS=0", "DTR=0,RTS=1", "DTR=0,RTS=0">>

\* log without the resetMcu calls at its end
BeforeReset(log) ==
  SelectSeq(log, LAMBDA e : e # "resetMcu")

\* C32: the three setSignals calls complete in the order (0,0), (0,1),
\* (0,0) before the operation begins; the commands are issued inside that
\* one operation in the order init, getProductId, writeUnprotect, init,
\* erasePages, writeMemory..., readMemory...; resetMcu is called only at
\* the end, never while the operation is running.
C32_SignalsCommandsReset ==
  /\ \E k \in 0..Len(CommandOrder) :
       IsPrefix(BeforeReset(flash.log),
                EntrySequence \o <<"begin">> \o SubSeq(CommandOrder, 1, k)
                  \o <<"end">>)
  /\ \A i \in 1..Len(flash.log) :
       flash.log[i] = "resetMcu" =>
         /\ \A j \in i..Len(flash.log) : flash.log[j] = "resetMcu"
         /\ ~InOperation(flash)

\* a flash of 512 bytes has issued every command and called resetMcu
C32_Witness ==
  /\ flash.total = 512 /\ flash.pc = "done" /\ flash.state = "complete"
  /\ flash.log = EntrySequence \o <<"begin">> \o CommandOrder
                   \o <<"end", "resetMcu">>

\* pr is the integer nearest to 50 * bytes / total (halves go up)
IsHalfPercent(pr, bytes, total) ==
  /\ 2 * total * pr <= 100 * bytes + total
  /\ 100 * bytes + total < 2 * total * (pr + 1)

\* C33: the percent reported with 'writing' is within 0..50, is 50 *
\* bytesWritten / totalBytes rounded, and never decreases from one report
\* to the next; the percent reported with 'verifying' is within 50..100, is
\* 50 plus 50 * bytesVerified / totalBytes rounded, and never decreases.
C33_PercentMonotonic ==
  [][/\ flash'.state = "writing" =>
          /\ flash'.progress \in 0..50
          /\ flash'.total > 0 =>
               IsHalfPercent(flash'.progress, flash'.written, flash'.total)
          /\ flash.state = "writing" => flash'.progress >= flash.progress
     /\ flash'.state = "verifying" =>
          /\ flash'.progress \in 50..100
          /\ flash'.total > 0 =>
               IsHalfPercent(flash'.progress - 50, flash'.verified,
                             flash'.total)
          /\ flash.state = "verifying" => flash'.progress >= flash.progress]_vars

\* of a 1024-byte image 256 bytes are verified: 63 percent was reported
\* after 13, 25, 38 and 50 percent in the writing phase
C33_Witness ==
  /\ flash.total = 1024 /\ flash.state = "verifying"
  /\ flash.verified = 256 /\ flash.progress = 63

\* chunk i (from 1) of chunks is at flashStart + 256 * (i - 1) and holds
\* up to 256 bytes, the last one what remains of the total bytes
ChunksInPlace(chunks, total) ==
  \A i \in 1..Len(chunks) :
    /\ chunks[i].address = 134217728 + 256 * (i - 1)
    /\ chunks[i].length =
         IF total - 256 * (i - 1) < 256 THEN total - 256 * (i - 1) ELSE 256
    /\ chunks[i].length > 0
    /\ i > 1 => chunks[i].address =
                  chunks[i - 1].address + chunks[i - 1].length

\* the bytes of chunks end total bytes after flashStart
ChunksCover(chunks, total) ==
  IF total = 0 THEN chunks = <<>>
  ELSE /\ chunks # <<>>
       /\ chunks[Len(chunks)].address + chunks[Len(chunks)].length =
            134217728 + total

\* C40: the i-th writeMemory and the i-th readMemory call of flash are for
\* the address flashStart + 256 * i (i from 0), each chunk begins where the
\* one before ended, every chunk written lies in the pages 0 ..
\* ceil(N / 1024) - 1, erased before, every chunk read back was written
\* before, and when a phase is complete its chunks cover the N bytes.
C40_ChunkAddresses ==
  /\ ChunksInPlace(flash.wchunks, flash.total)
  /\ ChunksInPlace(flash.rchunks, flash.total)
  /\ \A i \in 1..Len(flash.wchunks) :
       LET last == flash.wchunks[i].address + flash.wchunks[i].length - 1
       IN /\ flash.erased * 1024 >= flash.total
          /\ (flash.erased - 1) * 1024 < flash.total
          /\ flash.wchunks[i].address >= 134217728
          /\ last < 134217728 + flash.erased * 1024
  /\ \A i \in 1..Len(flash.rchunks) :
       /\ i <= Len(flash.wchunks)
       /\ flash.rchunks[i] = flash.wchunks[i]
  /\ "verifying" \in flash.reported => ChunksCover(flash.wchunks, flash.total)
  /\ "resetting" \in flash.reported => ChunksCover(flash.rchunks, flash.total)

\* a 1024-byte image was written and read back in 4 chunks, the last one
\* at flashStart + 768
C40_Witness ==
  /\ flash.total = 1024 /\ flash.state = "complete"
  /\ Len(flash.wchunks) = 4 /\ Len(flash.rchunks) = 4
  /\ flash.rchunks[4] = [address |-> 134217728 + 768, length |-> 256]

\* the commands of the bootloader protocol in which every read of one byte
\* is an expectAck
AckedCommands == {"writeMemory", "readMemory", "erasePages", "eraseAll"}

\* C34: when an expectAck of writeMemory, readMemory or erasePages reads
\* NACK or another byte that is not ACK, or its read times out, the command
\* throws at once: it writes nothing more, reads nothing more, and nothing
\* further happens on the transport afterwards.
C34_FailsWithoutRetry ==
  [][/\ (proto.op \in AckedCommands /\ proto.pc = "read") =>
          LET failed == /\ proto'.pc = "done" /\ ~proto'.returned
                        /\ proto'.error # NoProtocolError
                        /\ proto'.writes = proto.writes
                        /\ proto'.reads = proto.reads
          IN /\ ProtoReadFails => failed
             /\ \A b \in AckSamples \ {ACK} :
                  (proto.reads[Len(proto.reads)].n = 1
                   /\ ProtoReadDone(<<b>>)) => failed
     /\ proto.pc = "done" => proto' = proto]_vars

\* writeMemory has read NACK after the WRITE_MEMORY command and thrown,
\* having written neither the address nor the data
C34_Witness ==
  /\ proto.op = "writeMemory" /\ proto.pc = "done"
  /\ proto.error.message = "Received NACK from bootloader"
  /\ proto.writes = <<<<49, 206>>>>

\* C35: a physical read is in flight only while the leftover is empty; a
\* readExact that finds a leftover takes its bytes first and in order,
\* without touching the stream when they suffice, and starts a physical
\* read only with the leftover emptied into its buffer.
C35_LeftoverBeforeStream ==
  [][/\ (call'[Direct].kind = "readExact" /\ call'[Direct].phys # "none") =>
          leftover' = <<>>
     /\ \A n \in 1..MaxLen, t \in BOOLEAN, sig \in BOOLEAN, pre \in BOOLEAN :
          (leftover # <<>> /\ BeginRead(Direct, n, t, sig, pre)) =>
            /\ sent' = sent
            /\ IF Len(leftover) >= n
                 THEN /\ out' = out \o SubSeq(leftover, 1, n)
                      /\ leftover' = SubSeq(leftover, n + 1, Len(leftover))
                      /\ call'[Direct].phys = "none"
                      /\ conn' = conn
                 ELSE /\ leftover' = <<>>
                      /\ out' = out
                      /\ call'[Direct].kind = "readExact" =>
                           call'[Direct].buf = leftover]_vars

\* the second readExact took the byte left over by the first, then one
\* byte of a new chunk of two
C35_Witness ==
  /\ err[Direct] = "none" /\ call[Direct].made = 2
  /\ call[Direct].kind = "none" /\ out = Chunk(Direct, 0, 3)
  /\ leftover = Chunk(Direct, 3, 1) /\ sent = 4

\* the bytes of the stream that the direct client holds: returned, kept as
\* leftover, or in the buffer of its readExact in flight
Held ==
  {out[j] : j \in 1..Len(out)} \cup {leftover[j] : j \in 1..Len(leftover)}
    \cup {call[Direct].buf[j] : j \in 1..Len(call[Direct].buf)}

\* a readExact of the direct client for at least one byte ends by throwing
ReadExactThrows ==
  /\ call[Direct].kind = "readExact" /\ call[Direct].len > 0
  /\ call'[Direct].kind = "none" /\ call'[Direct].buf = <<>>

\* C38: when readExact fails after it has taken fewer bytes than requested,
\* the bytes it took (its buffer and the chunk it was just given) are neither
\* returned nor stored as leftover, and a byte of the stream that nobody
\* holds is never returned or stored by a later read
C38_PartialBytesDiscarded ==
  [][/\ ReadExactThrows =>
          /\ out' = out
          /\ \A p \in 1..sent' :
               <<p, Direct>> \notin {out[j] : j \in 1..Len(out)}
                                \cup {leftover[j] : j \in 1..Len(leftover)}
                 => <<p, Direct>> \notin Held'
     /\ \A p \in 1..sent : <<p, Direct>> \notin Held => <<p, Direct>> \notin Held']_vars

C38_Witness ==
  /\ err[Direct] = "TimeoutError" /\ call[Direct].kind = "none"
  /\ call[Direct].made = 2 /\ leftover = <<>>
  /\ out = Chunk(Direct, 1, 1) /\ sent = 2

\* C36: when a waiting operation is cancelled while the body of another
\* operation runs, the reader and writer of the connection and the transport
\* call of the running body stay as they were
C36_CancelledWaiterLeavesHandles ==
  [][\A i \in Ops, j \in Ops :
       (pc[i] = "waiting" /\ pc'[i] = "rejected" /\ pc[j] = "running") =>
         conn' = conn /\ call'[j] = call[j]]_vars

\* the physical read of caller c's readChunk is in flight
ReadChunkInFlight(c) ==
  call[c].kind = "readExact" /\ call[c].phys # "none"

\* C39: the timer and the abort listener of a readChunk are installed only
\* while that readChunk is in flight: once it has returned or thrown neither
\* is left, and the timer callback and onAbort act (cancel the reader,
\* release the locks) only during the call that installed them
C39_CleanupOnEveryExit ==
  [][/\ \A c \in Callers :
          /\ (call'[c].timer \/ call'[c].listener) => ReadChunkInFlight(c)'
          /\ TimerFires(c) => ReadChunkInFlight(c)
     /\ \A c \in Callers :
          (ReadChunkInFlight(c) /\ ~ReadChunkInFlight(c)') =>
            ~call'[c].timer /\ ~call'[c].listener]_vars

C39_Witness ==
  /\ call[Direct].kind = "readExact" /\ call[Direct].phys = "pending"
  /\ call[Direct].timer /\ call[Direct].listener
  /\ call[Direct].made = 3
  /\ err[Direct] = "TimeoutError" /\ out # <<>>

\* C37: when every body terminates, every call of runOperation that was
\* queued settles, and a queued operation runs its body unless its signal
\* fires, whatever became of the operations ahead of it
C37_NoDeadlock ==
  \A i \in Ops :
    /\ (pc[i] \in {"waiting", "running"}) ~> (pc[i] \in {"resolved", "rejected"})
    /\ (pc[i] = "waiting") ~> (started[i] \/ aborted[i])

C37_Witness ==
  /\ pc[1] = "rejected" /\ started[1] /\ err[1] = "ProtocolError"
  /\ pc[2] = "rejected" /\ earlyCancel[2] /\ ~started[2]
  /\ pc[3] = "resolved" /\ started[3] /\ ~hasSignal[3]

====
